---- MODULE Spec2Model ----
(***************************************************************************)
(* passworder: the local vault (src/src/vault) as a state machine.         *)
(*                                                                         *)
(* Layers, leaves first:                                                   *)
(*   1. bytes and the v1 container codec      (vault/format_v1.rs)         *)
(*   2. the crypto primitives                 (vault/crypto.rs)            *)
(*   3. the item model                        (vault/items.rs, ops.rs)     *)
(*   4. load / seal                           (vault/ops.rs)               *)
(*   5. the file system, locks and handlers   (vault/io.rs, ops.rs)        *)
(*   6. the specifications and the properties checked of them              *)
(***************************************************************************)
EXTENDS Integers, Sequences, FiniteSets, TLC

(***************************************************************************)
(* 1. Bytes.  A byte string is a sequence over 0..255.                     *)
(***************************************************************************)

\* Option<T>: None is the empty sequence, Some(v) the one-element sequence.
None == <<>>

Some(v) == <<v>>

IsSome(o) == Len(o) = 1

Unwrap(o) == o[1]

\* let v = ...; F(v)
Bind(v, F(_)) == F(v)

\* vec![b; n]
Rep(b, n) == [i \in 1..n |-> b]

\* &s[from..to) with 0-based offsets, as Rust slices are written.
Slice(s, from, to) == SubSeq(s, from + 1, to)

RECURSIVE SumSeq(_)
SumSeq(s) == IF s = <<>> THEN 0 ELSE Head(s) + SumSeq(Tail(s))

\* u16::to_le_bytes
LE16(n) == <<n % 256, (n \div 256) % 256>>

\* u16::from_le_bytes
FromLE16(b) == b[1] + 256 * b[2]

\* The model checker's integers are 32-bit signed.  A u32 of 2^31 or more is
\* larger than every length in the model; it is kept as U32Big, which
\* compares with lengths as the real value does.
U32Big == 2147483647

\* u32::to_le_bytes
LE32(n) == <<n % 256, (n \div 256) % 256, (n \div 65536) % 256, (n \div 16777216) % 256>>

\* u32::from_le_bytes
FromLE32(b) ==
    IF b[4] >= 128 THEN U32Big
    ELSE b[1] + 256 * b[2] + 65536 * b[3] + 16777216 * b[4]

(***************************************************************************)
(* 1a. Container format v1 (format_v1.rs).                                 *)
(***************************************************************************)

\* b"PWDERVLT"
MAGIC == <<80, 87, 68, 69, 82, 86, 76, 84>>

VERSION_V1 == 1

\* 8 + 2 + 4
FIXED_HEADER_LEN == 14

TLV_ARGON2_PARAMS == 1

TLV_KDF_SALT == 2

TLV_KDF_ALG == 3

TLV_AEAD_ALG == 16

TLV_HKDF_ALG == 32

TLV_WRAPPED_DEK == 256

TLV_PAYLOAD_NONCE == 512

\* b"argon2id"
KDF_ALG_ARGON2ID == <<97, 114, 103, 111, 110, 50, 105, 100>>

\* b"xchacha20poly1305"
AEAD_ALG_XCHACHA20POLY1305 ==
    <<120, 99, 104, 97, 99, 104, 97, 50, 48, 112, 111, 108, 121, 49, 51, 48, 53>>

\* b"hkdf-sha256"
HKDF_ALG_SHA256 == <<104, 107, 100, 102, 45, 115, 104, 97, 50, 53, 54>>

KDF_OUT_LEN == 32

DEK_LEN == 32

XCHACHA_NONCE_LEN == 24

\* The Poly1305 tag the AEAD appends to every ciphertext.
TAG_LEN == 16

FormatErr(e) == [ok |-> FALSE, err |-> "Format", detail |-> e]

\* parse_fixed_header without its check of the magic.
parse_fixed_header_no_magic(bytes) ==
    IF Len(bytes) < FIXED_HEADER_LEN THEN FormatErr("TooSmall")
    ELSE LET version == FromLE16(Slice(bytes, 8, 10))
             header_len == FromLE32(Slice(bytes, 10, 14))
         IN  IF version # VERSION_V1 THEN FormatErr("UnsupportedVersion")
             ELSE IF header_len < FIXED_HEADER_LEN \/ header_len > Len(bytes)
                  THEN FormatErr("InvalidHeaderLen")
             ELSE [ok |-> TRUE, version |-> version, header_len |-> header_len]

parse_fixed_header(bytes) ==
    IF Len(bytes) < FIXED_HEADER_LEN THEN FormatErr("TooSmall")
    ELSE IF Slice(bytes, 0, 8) # MAGIC THEN FormatErr("InvalidMagic")
    ELSE LET version == FromLE16(Slice(bytes, 8, 10))
             header_len == FromLE32(Slice(bytes, 10, 14))
         IN  IF version # VERSION_V1 THEN FormatErr("UnsupportedVersion")
             ELSE IF header_len < FIXED_HEADER_LEN \/ header_len > Len(bytes)
                  THEN FormatErr("InvalidHeaderLen")
             ELSE [ok |-> TRUE, version |-> version, header_len |-> header_len]

\* The locals of parse_vault_v1 before the TLV walk.
TlvAcc0 ==
    [kdf_params |-> None, kdf_salt |-> None, kdf_alg_ok |-> FALSE,
     aead_alg_ok |-> FALSE, hkdf_alg_ok |-> FALSE, wrap_nonce |-> None,
     wrapped_dek |-> None, payload_nonce |-> None, err |-> ""]

\* One arm of the match on the TLV type: the locals after the record.
TlvArm(acc, typ, value) ==
    CASE typ = TLV_ARGON2_PARAMS ->
           IF Len(value) # 16 THEN [acc EXCEPT !.err = "InvalidField"]
           ELSE IF FromLE32(Slice(value, 12, 16)) # KDF_OUT_LEN
                THEN [acc EXCEPT !.err = "InvalidField"]
           ELSE [acc EXCEPT !.kdf_params =
                    Some([memory_kib |-> FromLE32(Slice(value, 0, 4)),
                          iterations |-> FromLE32(Slice(value, 4, 8)),
                          parallelism |-> FromLE32(Slice(value, 8, 12))])]
      [] typ = TLV_KDF_SALT ->
           IF Len(value) # 16 THEN [acc EXCEPT !.err = "InvalidField"]
           ELSE [acc EXCEPT !.kdf_salt = Some(value)]
      [] typ = TLV_KDF_ALG ->
           IF value = KDF_ALG_ARGON2ID THEN [acc EXCEPT !.kdf_alg_ok = TRUE]
           ELSE [acc EXCEPT !.err = "InvalidField"]
      [] typ = TLV_AEAD_ALG ->
           IF value = AEAD_ALG_XCHACHA20POLY1305 THEN [acc EXCEPT !.aead_alg_ok = TRUE]
           ELSE [acc EXCEPT !.err = "InvalidField"]
      [] typ = TLV_HKDF_ALG ->
           IF value = HKDF_ALG_SHA256 THEN [acc EXCEPT !.hkdf_alg_ok = TRUE]
           ELSE [acc EXCEPT !.err = "InvalidField"]
      [] typ = TLV_WRAPPED_DEK ->
           IF Len(value) < XCHACHA_NONCE_LEN + 4 THEN [acc EXCEPT !.err = "InvalidField"]
           ELSE LET nonce == Slice(value, 0, XCHACHA_NONCE_LEN)
                    ct_len == FromLE32(Slice(value, XCHACHA_NONCE_LEN, XCHACHA_NONCE_LEN + 4))
                    ct == Slice(value, XCHACHA_NONCE_LEN + 4, Len(value))
                IN  IF Len(ct) # ct_len THEN [acc EXCEPT !.err = "InvalidField"]
                    ELSE [acc EXCEPT !.wrap_nonce = Some(nonce), !.wrapped_dek = Some(ct)]
      [] typ = TLV_PAYLOAD_NONCE ->
           IF Len(value) # XCHACHA_NONCE_LEN THEN [acc EXCEPT !.err = "InvalidField"]
           ELSE [acc EXCEPT !.payload_nonce = Some(value)]
      [] OTHER -> acc

\* A walk that ends at the first record of a type it does not know.
RECURSIVE TlvWalk_ends_at_unknown(_, _, _)
TlvWalk_ends_at_unknown(tlvs, pos, acc) ==
    IF ~(pos < Len(tlvs)) THEN acc
    ELSE IF Len(tlvs) - pos < 2 + 4 THEN [acc EXCEPT !.err = "InvalidTlv"]
    ELSE IF FromLE16(Slice(tlvs, pos, pos + 2)) \notin TLV_ARGON2_PARAMS..TLV_PAYLOAD_NONCE
         THEN acc
    ELSE LET typ == FromLE16(Slice(tlvs, pos, pos + 2))
             len == FromLE32(Slice(tlvs, pos + 2, pos + 6))
         IN  IF Len(tlvs) - (pos + 6) < len THEN [acc EXCEPT !.err = "InvalidTlv"]
             ELSE LET next == TlvArm(acc, typ, Slice(tlvs, pos + 6, pos + 6 + len))
                  IN  IF next.err # "" THEN next
                      ELSE TlvWalk_ends_at_unknown(tlvs, pos + 6 + len, next)

\* The while loop of parse_vault_v1 over the TLV block, from offset pos.
RECURSIVE TlvWalk(_, _, _)
TlvWalk(tlvs, pos, acc) ==
    IF ~(pos < Len(tlvs)) THEN acc
    ELSE IF Len(tlvs) - pos < 2 + 4 THEN [acc EXCEPT !.err = "InvalidTlv"]
    ELSE LET typ == FromLE16(Slice(tlvs, pos, pos + 2))
             len == FromLE32(Slice(tlvs, pos + 2, pos + 6))
         IN  IF Len(tlvs) - (pos + 6) < len THEN [acc EXCEPT !.err = "InvalidTlv"]
             ELSE LET next == TlvArm(acc, typ, Slice(tlvs, pos + 6, pos + 6 + len))
                  IN  IF next.err # "" THEN next
                      ELSE TlvWalk(tlvs, pos + 6 + len, next)

parse_vault_v1(bytes) ==
    Bind(parse_fixed_header(bytes), LAMBDA fixed :
    IF ~fixed.ok THEN fixed
    ELSE
    Bind(TlvWalk(Slice(bytes, FIXED_HEADER_LEN, fixed.header_len), 0, TlvAcc0), LAMBDA acc :
    IF acc.err # "" THEN FormatErr(acc.err)
    ELSE IF ~acc.kdf_alg_ok \/ ~acc.aead_alg_ok \/ ~acc.hkdf_alg_ok
         THEN FormatErr("MissingField")
    ELSE IF ~IsSome(acc.kdf_params) \/ ~IsSome(acc.kdf_salt)
            \/ ~IsSome(acc.wrap_nonce) \/ ~IsSome(acc.wrapped_dek)
            \/ ~IsSome(acc.payload_nonce)
         THEN FormatErr("MissingField")
    ELSE [ok |-> TRUE,
          header |-> [kdf_params |-> Unwrap(acc.kdf_params),
                      kdf_salt |-> Unwrap(acc.kdf_salt),
                      wrap_nonce |-> Unwrap(acc.wrap_nonce),
                      wrapped_dek |-> Unwrap(acc.wrapped_dek),
                      payload_nonce |-> Unwrap(acc.payload_nonce)],
          payload_ciphertext |-> Slice(bytes, fixed.header_len, Len(bytes))]))

push_tlv(buf, typ, value) == buf \o LE16(typ) \o LE32(Len(value)) \o value

encode_header_v1(h) ==
    LET params == LE32(h.kdf_params.memory_kib) \o LE32(h.kdf_params.iterations)
                  \o LE32(h.kdf_params.parallelism) \o LE32(KDF_OUT_LEN)
        wrapped == h.wrap_nonce \o LE32(Len(h.wrapped_dek)) \o h.wrapped_dek
        t1 == push_tlv(<<>>, TLV_ARGON2_PARAMS, params)
        t2 == push_tlv(t1, TLV_KDF_SALT, h.kdf_salt)
        t3 == push_tlv(t2, TLV_KDF_ALG, KDF_ALG_ARGON2ID)
        t4 == push_tlv(t3, TLV_AEAD_ALG, AEAD_ALG_XCHACHA20POLY1305)
        t5 == push_tlv(t4, TLV_HKDF_ALG, HKDF_ALG_SHA256)
        t6 == push_tlv(t5, TLV_WRAPPED_DEK, wrapped)
        tlvs == push_tlv(t6, TLV_PAYLOAD_NONCE, h.payload_nonce)
        header_len == FIXED_HEADER_LEN + Len(tlvs)
    IN  MAGIC \o LE16(VERSION_V1) \o LE32(header_len) \o tlvs

(***************************************************************************)
(* 2. Crypto primitives (crypto.rs).  Argon2id, HKDF and XChaCha20-        *)
(* Poly1305 are library code: they are modelled by their contracts.  A key *)
(* is the tuple of what it was derived from, so two derivations agree      *)
(* exactly when their inputs do.  A ciphertext is a byte string together   *)
(* with the record of what it seals (a box); decryption succeeds exactly   *)
(* when key, nonce, associated data and ciphertext bytes are those of a    *)
(* box that was sealed.                                                    *)
(***************************************************************************)

CryptoErr(e) == [ok |-> FALSE, err |-> "Crypto", detail |-> e]

\* KdfParams::recommended_macos
recommended_macos == [memory_kib |-> 256 * 1024, iterations |-> 3, parallelism |-> 1]

\* KdfParams::for_tests
for_tests == [memory_kib |-> 32 * 1024, iterations |-> 1, parallelism |-> 1]

\* KdfParams::to_argon2_params: Argon2Params::new rejects a memory cost under
\* 8 KiB per lane, no iteration, no lane, and more than 2^24 - 1 lanes.
to_argon2_params_ok(params) ==
    /\ params.parallelism >= 1
    /\ params.parallelism <= 16777215
    /\ params.iterations >= 1
    /\ params.memory_kib >= 8
    /\ params.memory_kib \div 8 >= params.parallelism

derive_kdf_out_from_password(master_password, salt, params) ==
    IF to_argon2_params_ok(params)
    THEN [ok |-> TRUE, key |-> <<"kdf_out", master_password, salt, params>>]
    ELSE CryptoErr("Argon2")

derive_kek(kdf_out) == <<"kek", kdf_out>>

\* The bytes of a ciphertext of n bytes: pseudo-random, here fixed by the
\* first nonce byte.  An odd seed gives a ciphertext whose first six bytes
\* happen to read as an empty TLV record of an undefined type.
CtBytes(seed, n) ==
    [i \in 1..n |-> IF seed % 2 = 1 /\ i \in 3..6 THEN 0 ELSE ((seed + i) % 255) + 1]

\* XChaCha20Poly1305::encrypt: the box sealed; msg_len is the plaintext length.
aead_encrypt(key, nonce, aad, msg, msg_len) ==
    [key |-> key, nonce |-> nonce, aad |-> aad, msg |-> msg,
     ct |-> CtBytes(nonce[1], msg_len + TAG_LEN)]

\* XChaCha20Poly1305::decrypt against the boxes that exist.
aead_decrypt(boxes, key, nonce, aad, ct) ==
    LET hit == {b \in boxes : b.key = key /\ b.nonce = nonce /\ b.aad = aad /\ b.ct = ct}
    IN  IF hit = {} THEN CryptoErr("Aead")
        ELSE [ok |-> TRUE, msg |-> (CHOOSE b \in hit : TRUE).msg]

wrap_dek(kek, wrap_nonce, aad, dek) == aead_encrypt(kek, wrap_nonce, aad, dek, DEK_LEN)

unwrap_dek(boxes, kek, wrap_nonce, aad, wrapped_dek_ct) ==
    aead_decrypt(boxes, kek, wrap_nonce, aad, wrapped_dek_ct)

encrypt_payload(dek, payload_nonce, aad, plaintext, plaintext_len) ==
    aead_encrypt(dek, payload_nonce, aad, plaintext, plaintext_len)

decrypt_payload(boxes, dek, payload_nonce, aad, ciphertext) ==
    aead_decrypt(boxes, dek, payload_nonce, aad, ciphertext)

(***************************************************************************)
(* 3. Item model (items.rs, ops.rs).  A string is the sequence of its      *)
(* character codes; the model's alphabet is ASCII.                         *)
(***************************************************************************)

\* char::is_whitespace on the ASCII range (str::trim)
IsWhitespace(c) == c \in {9, 10, 11, 12, 13, 32}

RECURSIVE trim_start(_)
trim_start(s) ==
    IF s # <<>> /\ IsWhitespace(Head(s)) THEN trim_start(Tail(s)) ELSE s

RECURSIVE trim_end(_)
trim_end(s) ==
    IF s # <<>> /\ IsWhitespace(s[Len(s)]) THEN trim_end(SubSeq(s, 1, Len(s) - 1)) ELSE s

\* str::trim
trim(s) == trim_end(trim_start(s))

\* str::to_lowercase on the ASCII range
to_lowercase(s) == [i \in 1..Len(s) |-> IF s[i] \in 65..90 THEN s[i] + 32 ELSE s[i]]

\* Ord for str: lexicographic on the bytes.  -1, 0, 1 for Less, Equal, Greater.
RECURSIVE str_cmp(_, _)
str_cmp(a, b) ==
    IF a = <<>> /\ b = <<>> THEN 0
    ELSE IF a = <<>> THEN -1
    ELSE IF b = <<>> THEN 1
    ELSE IF Head(a) < Head(b) THEN -1
    ELSE IF Head(a) > Head(b) THEN 1
    ELSE str_cmp(Tail(a), Tail(b))

\* Insertion of x after the last element that is not greater: a stable sort step.
RECURSIVE str_insert(_, _)
str_insert(sorted, x) ==
    IF sorted = <<>> THEN <<x>>
    ELSE IF str_cmp(sorted[Len(sorted)], x) <= 0 THEN Append(sorted, x)
    ELSE Append(str_insert(SubSeq(sorted, 1, Len(sorted) - 1), x), sorted[Len(sorted)])

\* Vec<String>::sort
RECURSIVE str_sort(_)
str_sort(v) ==
    IF v = <<>> THEN <<>>
    ELSE str_insert(str_sort(SubSeq(v, 1, Len(v) - 1)), v[Len(v)])

\* Vec::dedup: drops an element equal to the one before it.
RECURSIVE dedup(_)
dedup(v) ==
    IF Len(v) <= 1 THEN v
    ELSE LET front == dedup(SubSeq(v, 1, Len(v) - 1))
         IN  IF front[Len(front)] = v[Len(v)] THEN front ELSE Append(front, v[Len(v)])

\* The filter_map of normalize_tags: trimmed, lowercased, empties dropped.
RECURSIVE tags_filter_map(_)
tags_filter_map(tags) ==
    IF tags = <<>> THEN <<>>
    ELSE LET t == trim(Head(tags))
         IN  IF t = <<>> THEN tags_filter_map(Tail(tags))
             ELSE <<to_lowercase(t)>> \o tags_filter_map(Tail(tags))

\* normalize_tags without its sort and dedup.
normalize_tags_unsorted(tags) == tags_filter_map(tags)

normalize_tags(tags) == dedup(str_sort(tags_filter_map(tags)))

\* The filter_map of normalize_urls: trimmed, empties dropped, case kept.
RECURSIVE urls_filter_map(_)
urls_filter_map(urls) ==
    IF urls = <<>> THEN <<>>
    ELSE LET u == trim(Head(urls))
         IN  IF u = <<>> THEN urls_filter_map(Tail(urls))
             ELSE <<u>> \o urls_filter_map(Tail(urls))

normalize_urls(urls) == dedup(str_sort(urls_filter_map(urls)))

\* Option<String>::as_deref().unwrap_or("")
unwrap_or_empty(o) == IF IsSome(o) THEN Unwrap(o) ELSE <<>>

\* Ord for Uuid compares the 16 bytes; a model id n is the uuid whose bytes
\* are n big-endian, so the order is the order of the numbers.
uuid_cmp(a, b) == IF a < b THEN -1 ELSE IF a > b THEN 1 ELSE 0

\* The comparison with the most recently updated item first.
item_sort_cmp_recent_first(a, b) ==
    IF a.updated_at # b.updated_at THEN (IF a.updated_at > b.updated_at THEN -1 ELSE 1)
    ELSE LET pc == str_cmp(unwrap_or_empty(a.path), unwrap_or_empty(b.path))
         IN  IF pc # 0 THEN pc
             ELSE LET nc == str_cmp(a.name, b.name)
                  IN  IF nc # 0 THEN nc ELSE uuid_cmp(a.id, b.id)

\* item_sort_cmp: by path (or ""), then name, then id.
item_sort_cmp(a, b) ==
    LET pc == str_cmp(unwrap_or_empty(a.path), unwrap_or_empty(b.path))
    IN  IF pc # 0 THEN pc
        ELSE LET nc == str_cmp(a.name, b.name)
             IN  IF nc # 0 THEN nc ELSE uuid_cmp(a.id, b.id)

RECURSIVE item_insert(_, _)
item_insert(sorted, x) ==
    IF sorted = <<>> THEN <<x>>
    ELSE IF item_sort_cmp(sorted[Len(sorted)], x) <= 0 THEN Append(sorted, x)
    ELSE Append(item_insert(SubSeq(sorted, 1, Len(sorted) - 1), x), sorted[Len(sorted)])

\* The items left in the order they are in.
sort_items_omitted(v) == v

\* payload.items.sort_by(item_sort_cmp): a stable sort.
RECURSIVE sort_items(_)
sort_items(v) ==
    IF v = <<>> THEN <<>>
    ELSE item_insert(sort_items(SubSeq(v, 1, Len(v) - 1)), v[Len(v)])

\* Index of the first item with this id, 0 when there is none (iter().find).
RECURSIVE find_from(_, _, _)
find_from(items, id, i) ==
    IF i > Len(items) THEN 0
    ELSE IF items[i].id = id THEN i
    ELSE find_from(items, id, i + 1)

find_item(items, id) == find_from(items, id, 1)

\* Vec::retain(|i| i.id != id)
RECURSIVE retain_not(_, _)
retain_not(items, id) ==
    IF items = <<>> THEN <<>>
    ELSE IF Head(items).id = id THEN retain_not(Tail(items), id)
    ELSE <<Head(items)>> \o retain_not(Tail(items), id)

\* The item vault_add_item_v1 builds from its input.
new_item(input, id, now) ==
    [id |-> id, item_type |-> input.item_type, name |-> input.name,
     path |-> input.path, tags |-> normalize_tags(input.tags),
     username |-> input.username, secret |-> input.secret,
     urls |-> normalize_urls(input.urls), notes |-> input.notes,
     created_at |-> now, updated_at |-> now]

\* vault_add_item_v1, lines 182-199: push and sort.
add_to_items(items, input, id, now) == sort_items(Append(items, new_item(input, id, now)))

\* The field updates with the value looked at before the clear flag.
edit_fields_set_first(item, input, now) ==
    [id |-> item.id,
     item_type |-> IF IsSome(input.item_type) THEN Unwrap(input.item_type) ELSE item.item_type,
     name |-> IF IsSome(input.name) THEN Unwrap(input.name) ELSE item.name,
     path |-> IF IsSome(input.path) THEN Some(Unwrap(input.path))
              ELSE IF input.clear_path THEN None ELSE item.path,
     tags |-> IF IsSome(input.tags) THEN normalize_tags(Unwrap(input.tags))
              ELSE IF input.clear_tags THEN <<>> ELSE item.tags,
     username |-> IF IsSome(input.username) THEN Some(Unwrap(input.username))
                  ELSE IF input.clear_username THEN None ELSE item.username,
     secret |-> IF IsSome(input.secret) THEN Unwrap(input.secret) ELSE item.secret,
     urls |-> IF IsSome(input.urls) THEN normalize_urls(Unwrap(input.urls))
              ELSE IF input.clear_urls THEN <<>> ELSE item.urls,
     notes |-> IF IsSome(input.notes) THEN Some(Unwrap(input.notes))
               ELSE IF input.clear_notes THEN None ELSE item.notes,
     created_at |-> item.created_at,
     updated_at |-> now]

\* vault_edit_item_v1, lines 270-305: the field updates on the found item.
edit_fields(item, input, now) ==
    [id |-> item.id,
     item_type |-> IF IsSome(input.item_type) THEN Unwrap(input.item_type) ELSE item.item_type,
     name |-> IF IsSome(input.name) THEN Unwrap(input.name) ELSE item.name,
     path |-> IF input.clear_path THEN None
              ELSE IF IsSome(input.path) THEN Some(Unwrap(input.path)) ELSE item.path,
     tags |-> IF input.clear_tags THEN <<>>
              ELSE IF IsSome(input.tags) THEN normalize_tags(Unwrap(input.tags)) ELSE item.tags,
     username |-> IF input.clear_username THEN None
                  ELSE IF IsSome(input.username) THEN Some(Unwrap(input.username))
                  ELSE item.username,
     secret |-> IF IsSome(input.secret) THEN Unwrap(input.secret) ELSE item.secret,
     urls |-> IF input.clear_urls THEN <<>>
              ELSE IF IsSome(input.urls) THEN normalize_urls(Unwrap(input.urls)) ELSE item.urls,
     notes |-> IF input.clear_notes THEN None
               ELSE IF IsSome(input.notes) THEN Some(Unwrap(input.notes)) ELSE item.notes,
     created_at |-> item.created_at,
     updated_at |-> now]

\* The edited item pushed as a new one, the found one left where it is.
edit_in_items_appends(items, input, now) ==
    LET idx == find_item(items, input.id)
    IN  IF idx = 0 THEN [ok |-> FALSE, err |-> "ItemNotFound", detail |-> ""]
        ELSE [ok |-> TRUE,
              items |-> sort_items(Append(items, edit_fields(items[idx], input, now)))]

\* vault_edit_item_v1, lines 264-307: find, update, sort.  idx = 0: ItemNotFound.
edit_in_items(items, input, now) ==
    LET idx == find_item(items, input.id)
    IN  IF idx = 0 THEN [ok |-> FALSE, err |-> "ItemNotFound", detail |-> ""]
        ELSE [ok |-> TRUE,
              items |-> sort_items([i \in 1..Len(items) |->
                                       IF i = idx THEN edit_fields(items[i], input, now)
                                       ELSE items[i]])]

\* retain with its predicate inverted: the item with the id is the one kept.
remove_from_items_inverted(items, id) ==
    LET kept == SelectSeq(items, LAMBDA i : i.id = id)
    IN  IF Len(kept) = Len(items) THEN [ok |-> FALSE, err |-> "ItemNotFound", detail |-> ""]
        ELSE [ok |-> TRUE, items |-> kept]

\* vault_remove_item_v1, lines 326-330: retain; nothing removed: ItemNotFound.
remove_from_items(items, id) ==
    LET kept == retain_not(items, id)
    IN  IF Len(kept) = Len(items) THEN [ok |-> FALSE, err |-> "ItemNotFound", detail |-> ""]
        ELSE [ok |-> TRUE, items |-> kept]

(***************************************************************************)
(* 3a. The payload as JSON (items.rs serde attributes).  serde_json's text *)
(* syntax is library code; the document is kept as the tree of its keys    *)
(* and values, with the conversions the attributes ask for: the uuid as a  *)
(* hyphenated string, the type in kebab-case, None and empty vectors       *)
(* omitted on write and defaulted on read.                                 *)
(***************************************************************************)

HexChar(d) == IF d < 10 THEN 48 + d ELSE 87 + d

HexVal(c) ==
    IF c \in 48..57 THEN c - 48
    ELSE IF c \in 97..102 THEN c - 87
    ELSE IF c \in 65..70 THEN c - 55
    ELSE -1

\* The 16 bytes of the uuid that the model id n stands for.
UuidBytes(n) == Rep(0, 14) \o <<(n \div 256) % 256, n % 256>>

UuidOfBytes(b) == 256 * b[15] + b[16]

\* Uuid::to_string: 8-4-4-4-12 lowercase hex.
uuid_to_string(id) ==
    LET b == UuidBytes(id)
        hex == [i \in 1..32 |-> IF i % 2 = 1 THEN HexChar(b[(i + 1) \div 2] \div 16)
                                ELSE HexChar(b[i \div 2] % 16)]
    IN  SubSeq(hex, 1, 8) \o <<45>> \o SubSeq(hex, 9, 12) \o <<45>> \o SubSeq(hex, 13, 16)
        \o <<45>> \o SubSeq(hex, 17, 20) \o <<45>> \o SubSeq(hex, 21, 32)

\* Uuid::parse_str on the hyphenated form.
uuid_parse_str(s) ==
    IF Len(s) # 36 \/ s[9] # 45 \/ s[14] # 45 \/ s[19] # 45 \/ s[24] # 45
    THEN [ok |-> FALSE, err |-> "Json", detail |-> "uuid"]
    ELSE LET hex == SubSeq(s, 1, 8) \o SubSeq(s, 10, 13) \o SubSeq(s, 15, 18)
                    \o SubSeq(s, 20, 23) \o SubSeq(s, 25, 36)
         IN  IF \E i \in 1..32 : HexVal(hex[i]) < 0
             THEN [ok |-> FALSE, err |-> "Json", detail |-> "uuid"]
             ELSE [ok |-> TRUE,
                   id |-> UuidOfBytes([i \in 1..16 |->
                              16 * HexVal(hex[2 * i - 1]) + HexVal(hex[2 * i])])]

\* #[serde(rename_all = "kebab-case")]
KebabOfType(t) ==
    CASE t = "Login" -> "login" [] t = "SecureNote" -> "secure-note"
      [] t = "ApiToken" -> "api-token"

TypeOfKebab(k) ==
    CASE k = "login" -> "Login" [] k = "secure-note" -> "SecureNote"
      [] k = "api-token" -> "ApiToken" [] OTHER -> ""

\* The keys serde writes for an item: skip_serializing_if drops the rest.
ItemJsonKeys(item) ==
    {"id", "type", "name", "secret", "created_at", "updated_at"}
    \cup (IF IsSome(item.path) THEN {"path"} ELSE {})
    \cup (IF item.tags # <<>> THEN {"tags"} ELSE {})
    \cup (IF IsSome(item.username) THEN {"username"} ELSE {})
    \cup (IF item.urls # <<>> THEN {"urls"} ELSE {})
    \cup (IF IsSome(item.notes) THEN {"notes"} ELSE {})

\* Serialize for VaultItemV1
item_to_json(item) ==
    [k \in ItemJsonKeys(item) |->
        CASE k = "id" -> uuid_to_string(item.id)
          [] k = "type" -> KebabOfType(item.item_type)
          [] k = "name" -> item.name
          [] k = "path" -> Unwrap(item.path)
          [] k = "tags" -> item.tags
          [] k = "username" -> Unwrap(item.username)
          [] k = "secret" -> item.secret
          [] k = "urls" -> item.urls
          [] k = "notes" -> Unwrap(item.notes)
          [] k = "created_at" -> item.created_at
          [] k = "updated_at" -> item.updated_at]

\* Deserialize for VaultItemV1: a missing required key, a bad uuid or an
\* unknown type is an error; #[serde(default)] fills the optional ones.
item_from_json(o) ==
    IF ~({"id", "type", "name", "secret", "created_at", "updated_at"} \subseteq DOMAIN o)
    THEN [ok |-> FALSE, err |-> "Json", detail |-> "missing field"]
    ELSE LET id == uuid_parse_str(o["id"])
         IN  IF ~id.ok THEN id
             ELSE IF TypeOfKebab(o["type"]) = ""
                  THEN [ok |-> FALSE, err |-> "Json", detail |-> "unknown variant"]
             ELSE [ok |-> TRUE,
                   item |-> [id |-> id.id,
                             item_type |-> TypeOfKebab(o["type"]),
                             name |-> o["name"],
                             path |-> IF "path" \in DOMAIN o THEN Some(o["path"]) ELSE None,
                             tags |-> IF "tags" \in DOMAIN o THEN o["tags"] ELSE <<>>,
                             username |-> IF "username" \in DOMAIN o
                                          THEN Some(o["username"]) ELSE None,
                             secret |-> o["secret"],
                             urls |-> IF "urls" \in DOMAIN o THEN o["urls"] ELSE <<>>,
                             notes |-> IF "notes" \in DOMAIN o THEN Some(o["notes"]) ELSE None,
                             created_at |-> o["created_at"],
                             updated_at |-> o["updated_at"]]]

\* serde_json::to_vec(payload): the document.
payload_to_json(payload) ==
    [schema_version |-> payload.schema_version,
     items |-> [i \in 1..Len(payload.items) |-> item_to_json(payload.items[i])]]

\* serde_json::from_slice::<VaultPayloadV1>
payload_from_json(doc) ==
    LET parsed == [i \in 1..Len(doc.items) |-> item_from_json(doc.items[i])]
    IN  IF \E i \in 1..Len(parsed) : ~parsed[i].ok
        THEN [ok |-> FALSE, err |-> "Json", detail |-> "item"]
        ELSE [ok |-> TRUE,
              payload |-> [schema_version |-> doc.schema_version,
                           items |-> [i \in 1..Len(parsed) |-> parsed[i].item]]]

\* Decimal digits of a number, as serde_json writes it.
RECURSIVE DecLen(_)
DecLen(n) == IF n < 10 THEN 1 ELSE 1 + DecLen(n \div 10)

\* Length of a JSON string value; the alphabet holds no character that is escaped.
JsonStrLen(s) == Len(s) + 2

\* Length of a JSON array of strings.
JsonStrArrLen(v) ==
    IF v = <<>> THEN 2
    ELSE 2 + SumSeq([i \in 1..Len(v) |-> JsonStrLen(v[i])]) + (Len(v) - 1)

\* Length of "key":value for one key of an item.
ItemFieldLen(o, k) ==
    CASE k = "id" -> 5 + JsonStrLen(o[k])
      [] k = "type" -> 7 + (CASE o[k] = "login" -> 7 [] o[k] = "secure-note" -> 13
                              [] o[k] = "api-token" -> 11)
      [] k = "name" -> 7 + JsonStrLen(o[k])
      [] k = "path" -> 7 + JsonStrLen(o[k])
      [] k = "tags" -> 7 + JsonStrArrLen(o[k])
      [] k = "username" -> 11 + JsonStrLen(o[k])
      [] k = "secret" -> 9 + JsonStrLen(o[k])
      [] k = "urls" -> 7 + JsonStrArrLen(o[k])
      [] k = "notes" -> 8 + JsonStrLen(o[k])
      [] k = "created_at" -> 13 + DecLen(o[k])
      [] k = "updated_at" -> 13 + DecLen(o[k])

RECURSIVE SumOver(_, _)
SumOver(o, keys) ==
    IF keys = {} THEN 0
    ELSE LET k == CHOOSE x \in keys : TRUE
         IN  ItemFieldLen(o, k) + SumOver(o, keys \ {k})

ItemJsonLen(o) == 2 + SumOver(o, DOMAIN o) + (Cardinality(DOMAIN o) - 1)

\* Bytes of the compact JSON text of the document:
\* {"schema_version":1,"items":[...]}
JsonLen(doc) ==
    30 + DecLen(doc.schema_version)
    + SumSeq([i \in 1..Len(doc.items) |-> ItemJsonLen(doc.items[i])])
    + (IF Len(doc.items) > 1 THEN Len(doc.items) - 1 ELSE 0)

(***************************************************************************)
(* 4. Load and seal (ops.rs).  The content of a file is a blob: its bytes, *)
(* and the boxes its ciphertext bytes were sealed in.                      *)
(***************************************************************************)

Blob(bytes, boxes) == [bytes |-> bytes, boxes |-> boxes]

\* aad_for_v1 that leaves the wrapped DEK in the header it encodes.
aad_for_v1_unzeroed(header) == encode_header_v1(header)

aad_for_v1(header) ==
    encode_header_v1([kdf_params |-> header.kdf_params,
                      kdf_salt |-> header.kdf_salt,
                      wrap_nonce |-> header.wrap_nonce,
                      wrapped_dek |-> Rep(0, Len(header.wrapped_dek)),
                      payload_nonce |-> header.payload_nonce])

\* The AEAD failure passed on as the Crypto error it is.
aead_map_err_passthrough(e) == e

\* The map_err of load_payload_v1 on a failed unwrap or decrypt.
aead_map_err(e) ==
    IF e.detail = "Aead" THEN [ok |-> FALSE, err |-> "AuthFailed", detail |-> ""]
    ELSE e

load_payload_v1(vault, master_password) ==
    Bind(parse_vault_v1(vault.bytes), LAMBDA parsed :
    IF ~parsed.ok THEN parsed
    ELSE
    Bind(aad_for_v1(parsed.header), LAMBDA aad :
    Bind(derive_kdf_out_from_password(
             master_password, parsed.header.kdf_salt, parsed.header.kdf_params),
         LAMBDA kdf_out :
    IF ~kdf_out.ok THEN kdf_out
    ELSE
    Bind(unwrap_dek(vault.boxes, derive_kek(kdf_out.key), parsed.header.wrap_nonce, aad,
                    parsed.header.wrapped_dek), LAMBDA dek :
    IF ~dek.ok THEN aead_map_err(dek)
    ELSE
    Bind(decrypt_payload(vault.boxes, dek.msg, parsed.header.payload_nonce, aad,
                         parsed.payload_ciphertext), LAMBDA plaintext :
    IF ~plaintext.ok THEN aead_map_err(plaintext)
    ELSE
    Bind(payload_from_json(plaintext.msg), LAMBDA payload :
    IF ~payload.ok THEN payload
    ELSE IF payload.payload.schema_version # 1
         THEN [ok |-> FALSE, err |-> "UnsupportedPayloadSchema", detail |-> ""]
    ELSE [ok |-> TRUE, payload |-> payload.payload, header |-> parsed.header]))))))

\* Lines 407-436 of seal_vault_v1 (and 101-135 of vault_init_v1, which are the
\* same steps): rnd holds what the CSPRNG returned, doc the payload's JSON.
seal_doc(kdf_params, kdf_salt, master_password, doc, rnd) ==
    Bind(derive_kdf_out_from_password(master_password, kdf_salt, kdf_params),
         LAMBDA kdf_out :
    IF ~kdf_out.ok THEN kdf_out
    ELSE
    Bind([kdf_params |-> kdf_params, kdf_salt |-> kdf_salt,
          wrap_nonce |-> rnd.wrap_nonce,
          wrapped_dek |-> Rep(0, DEK_LEN + 16),
          payload_nonce |-> rnd.payload_nonce], LAMBDA placeholder_header :
    Bind(encode_header_v1(placeholder_header), LAMBDA aad :
    Bind(wrap_dek(derive_kek(kdf_out.key), rnd.wrap_nonce, aad, rnd.dek), LAMBDA wrapped :
    Bind(encode_header_v1([placeholder_header EXCEPT !.wrapped_dek = wrapped.ct]),
         LAMBDA header_bytes :
    Bind(encrypt_payload(rnd.dek, rnd.payload_nonce, aad, doc, JsonLen(doc)),
         LAMBDA sealed :
    [ok |-> TRUE, vault |-> Blob(header_bytes \o sealed.ct, {wrapped, sealed})]))))))

\* seal_vault_v1 with a salt sampled anew like the nonces.
seal_vault_v1_resalted(kdf_params, kdf_salt, master_password, payload, rnd) ==
    seal_doc(kdf_params, rnd.kdf_salt, master_password, payload_to_json(payload), rnd)

seal_vault_v1(kdf_params, kdf_salt, master_password, payload, rnd) ==
    seal_doc(kdf_params, kdf_salt, master_password, payload_to_json(payload), rnd)

\* vault_init_v1, lines 95-135: the bytes of a new, empty vault.
init_vault_bytes(master_password, test_kdf, rnd) ==
    seal_doc(IF test_kdf THEN for_tests ELSE recommended_macos, rnd.kdf_salt,
             master_password, [schema_version |-> 1, items |-> <<>>], rnd)

(***************************************************************************)
(* 3b. Search (ops.rs).                                                    *)
(***************************************************************************)

\* str::contains
contains(hay, needle) ==
    \E i \in 0..(Len(hay) - Len(needle)) : SubSeq(hay, i + 1, i + Len(needle)) = needle

\* The match with the secret looked at as well.
item_matches_query_with_secret(item, q) ==
    \/ contains(to_lowercase(item.name), q)
    \/ (IsSome(item.path) /\ contains(to_lowercase(Unwrap(item.path)), q))
    \/ \E i \in 1..Len(item.tags) : contains(item.tags[i], q)
    \/ (IsSome(item.username) /\ contains(to_lowercase(Unwrap(item.username)), q))
    \/ contains(to_lowercase(item.secret), q)
    \/ \E i \in 1..Len(item.urls) : contains(to_lowercase(item.urls[i]), q)
    \/ (IsSome(item.notes) /\ contains(to_lowercase(Unwrap(item.notes)), q))

\* item_matches_query: q is the trimmed, lowercased query; tags are stored
\* lowercased and are not lowercased again.
item_matches_query(item, q) ==
    \/ contains(to_lowercase(item.name), q)
    \/ (IsSome(item.path) /\ contains(to_lowercase(Unwrap(item.path)), q))
    \/ \E i \in 1..Len(item.tags) : contains(item.tags[i], q)
    \/ (IsSome(item.username) /\ contains(to_lowercase(Unwrap(item.username)), q))
    \/ \E i \in 1..Len(item.urls) : contains(to_lowercase(item.urls[i]), q)
    \/ (IsSome(item.notes) /\ contains(to_lowercase(Unwrap(item.notes)), q))

\* Iterator::filter(..).collect()
RECURSIVE filter_matches(_, _)
filter_matches(items, q) ==
    IF items = <<>> THEN <<>>
    ELSE IF item_matches_query(Head(items), q)
         THEN <<Head(items)>> \o filter_matches(Tail(items), q)
    ELSE filter_matches(Tail(items), q)

(***************************************************************************)
(* 5. The file system, the advisory lock and the handlers (io.rs, ops.rs). *)
(*                                                                         *)
(* ino   the inodes: for each id in use, the content (a blob) and mode     *)
(* dir   the directory: the inode at the vault path and at the lock path   *)
(*       (0: no such file), and the inodes under temporary names           *)
(* flock for each process, the flock it holds on the lock file             *)
(* proc  for each process, where it is in its handler and its locals       *)
(* issued the uuids Uuid::new_v4 has returned                              *)
(* tally  counts kept for the bounds and the properties                    *)
(***************************************************************************)
VARIABLES ino, dir, flock, proc, issued, tally

vars == <<ino, dir, flock, proc, issued, tally>>

\* Processes that may run handlers at the same time.
NumProcs == 2

\* Handlers started in one behaviour.
MaxOps == 3

\* Processes killed in the middle of a handler in one behaviour.
MaxAborts == 1

\* Distinct uuids, nonce seeds.
MaxIds == 2

MaxRnd == 1

\* Wall-clock readings are 0..MaxTime.
MaxTime == 1

Procs == 1..NumProcs

Ids == 1..MaxIds

\* Every inode that can be in use at once: the vault, the lock file, one
\* open or temporary file per process, and the temporary files of the killed.
InoIds == 1..(2 + NumProcs + MaxAborts)

\* 0o600
MODE_0600 == 384

Err(kind, detail) == [ok |-> FALSE, err |-> kind, detail |-> detail]

Ok(val) == [ok |-> TRUE, val |-> val]

NoBlob == Blob(<<>>, {})

\* The arguments of a handler and what it draws from its environment: the
\* random bytes, the clock's reading, the new uuid, the umask of the process
\* (18 is 0o022).
NoOp ==
    [kind |-> "none", pw |-> "", id |-> 0, input |-> <<>>, query |-> <<>>,
     rnd |-> <<>>, now |-> 0, new_id |-> 0, test_kdf |-> TRUE, umask |-> 18]

\* A process between handlers.
Idle(ret) ==
    [pc |-> "idle", op |-> NoOp, fd |-> 0, buf |-> <<>>, new |-> NoBlob, tmp |-> 0,
     ret |-> ret]

NoRet == Err("", "")

State == [ino |-> ino, dir |-> dir, flock |-> flock, proc |-> proc, issued |-> issued]

\* An inode lives while a name or an open descriptor refers to it.
LiveInos(s) ==
    ({s.dir.vault, s.dir.lock} \cup s.dir.tmps \cup {s.proc[q].fd : q \in Procs}
     \cup {s.proc[q].tmp : q \in Procs}) \ {0}

Reap(s) == [s EXCEPT !.ino = [i \in LiveInos(s) |-> s.ino[i]]]

FreshIno(s) == CHOOSE i \in InoIds : i \notin DOMAIN s.ino /\ \A j \in InoIds : j < i => j \in DOMAIN s.ino

\* The handler returns with the flock still held.
Return_lock_kept(s, p, ret) == Reap([s EXCEPT !.proc[p] = Idle(ret)])

\* The handler returns: the lock guard and every descriptor are dropped.
Return(s, p, ret) ==
    Reap([s EXCEPT !.proc[p] = Idle(ret), !.flock[p] = "none"])

\* flock(2): LOCK_SH is granted unless another descriptor holds LOCK_EX,
\* LOCK_EX when no other descriptor holds the lock.
LockGrantedBroken(mode, others) == TRUE

lock_file(mode, others) ==
    IF mode = "Shared" THEN "Exclusive" \notin others ELSE others \subseteq {"none"}

OtherLocks(s, p) == {s.flock[q] : q \in Procs \ {p}}

\* VaultLock::acquire: the lock file is created 0600 if missing, chmod 0600,
\* then flock, which blocks until the lock is granted.
CanAcquire(s, p, mode) == lock_file(mode, OtherLocks(s, p))

acquire(s, p, mode, next) ==
    LET l == IF s.dir.lock = 0 THEN FreshIno(s) ELSE s.dir.lock
    IN  [s EXCEPT !.ino = [i \in DOMAIN s.ino \cup {l} |->
                              IF i = l THEN [data |-> NoBlob, mode |-> MODE_0600]
                              ELSE s.ino[i]],
                  !.dir.lock = l,
                  !.flock[p] = mode,
                  !.proc[p].pc = next]

\* File::open(vault_path): NotFound is VaultIoError::Io for vault_status_v1
\* and NotInitialized through read_existing_vault_bytes(_unlocked).
open_vault(s, p, next) ==
    IF s.dir.vault = 0
    THEN Return(s, p, IF s.proc[p].op.kind = "status" THEN Err("Io", "NotFound")
                      ELSE Err("NotInitialized", ""))
    ELSE [s EXCEPT !.proc[p].fd = s.dir.vault, !.proc[p].buf = <<>>, !.proc[p].pc = next]

\* read_to_end: a first read(2) returns the first half of the file, ...
read_first(s, p, next) ==
    LET bytes == s.ino[s.proc[p].fd].data.bytes
    IN  [s EXCEPT !.proc[p].buf = SubSeq(bytes, 1, Len(bytes) \div 2),
                  !.proc[p].pc = next]

\* ... and the next ones the rest, from the offset reached.
read_rest(s, p) ==
    LET bytes == s.ino[s.proc[p].fd].data.bytes
        buf == s.proc[p].buf
    IN  Blob(buf \o SubSeq(bytes, Len(buf) + 1, Len(bytes)), s.ino[s.proc[p].fd].data.boxes)

\* The rest of vault_status_v1, vault_get_item_v1, vault_list_items_v1 and
\* vault_search_items_v1 once read_vault_bytes has returned the bytes.
finish_reader(s, p) ==
    Bind(read_rest(s, p), LAMBDA vault :
    Bind(s.proc[p].op, LAMBDA op :
    IF op.kind = "status"
    THEN Bind(parse_fixed_header(vault.bytes), LAMBDA fixed :
         Return(s, p, IF fixed.ok THEN Ok(<<"locked", Some(fixed.version)>>) ELSE fixed))
    ELSE
    Bind(load_payload_v1(vault, op.pw), LAMBDA l :
    IF ~l.ok THEN Return(s, p, l)
    ELSE IF op.kind = "get"
         THEN Bind(find_item(l.payload.items, op.id), LAMBDA idx :
              Return(s, p, IF idx = 0 THEN Err("ItemNotFound", "")
                           ELSE Ok(l.payload.items[idx])))
    ELSE IF op.kind = "list" THEN Return(s, p, Ok(l.payload.items))
    ELSE Return(s, p, Ok(filter_matches(l.payload.items, to_lowercase(trim(op.query))))))))

\* What add, edit and rm do to the items they loaded.
mutate(items, op) ==
    CASE op.kind = "add" ->
           [ok |-> TRUE, items |-> add_to_items(items, op.input, op.new_id, op.now)]
      [] op.kind = "edit" -> edit_in_items(items, op.input, op.now)
      [] op.kind = "rm" -> remove_from_items(items, op.id)

\* add, edit and rm handing the sealed bytes to the write that takes the
\* lock itself.
finish_mutator_read_locked_write(s, p) ==
    Bind(s.proc[p].op, LAMBDA op :
    Bind(load_payload_v1(read_rest(s, p), op.pw), LAMBDA l :
    IF ~l.ok THEN Return(s, p, l)
    ELSE
    Bind(mutate(l.payload.items, op), LAMBDA m :
    IF ~m.ok THEN Return(s, p, m)
    ELSE
    Bind(seal_vault_v1(l.header.kdf_params, l.header.kdf_salt, op.pw,
                       [l.payload EXCEPT !.items = m.items], op.rnd), LAMBDA sealed :
    IF ~sealed.ok THEN Return(s, p, sealed)
    ELSE Reap([s EXCEPT !.proc[p].fd = 0, !.proc[p].buf = <<>>,
                        !.proc[p].new = sealed.vault,
                        !.proc[p].pc = "w_lock"])))))

\* vault_add_item_v1, vault_edit_item_v1 and vault_remove_item_v1 from the
\* bytes read to the sealed bytes to write.
finish_mutator_read(s, p) ==
    Bind(s.proc[p].op, LAMBDA op :
    Bind(load_payload_v1(read_rest(s, p), op.pw), LAMBDA l :
    IF ~l.ok THEN Return(s, p, l)
    ELSE
    Bind(mutate(l.payload.items, op), LAMBDA m :
    IF ~m.ok THEN Return(s, p, m)
    ELSE
    Bind(seal_vault_v1(l.header.kdf_params, l.header.kdf_salt, op.pw,
                       [l.payload EXCEPT !.items = m.items], op.rnd), LAMBDA sealed :
    IF ~sealed.ok THEN Return(s, p, sealed)
    ELSE Reap([s EXCEPT !.proc[p].fd = 0, !.proc[p].buf = <<>>,
                        !.proc[p].new = sealed.vault,
                        !.proc[p].pc = "w_create"])))))

\* vault_init_v1 up to the call of write_vault_bytes_atomic.
init_check(s, p) ==
    IF s.dir.vault # 0 THEN Return(s, p, Err("AlreadyExists", ""))
    ELSE Bind(init_vault_bytes(s.proc[p].op.pw, s.proc[p].op.test_kdf, s.proc[p].op.rnd),
              LAMBDA sealed :
         IF ~sealed.ok THEN Return(s, p, sealed)
         ELSE [s EXCEPT !.proc[p].new = sealed.vault, !.proc[p].pc = "w_lock"])

\* The status read with no exists() check before it.
status_check_omitted(s, p) == [s EXCEPT !.proc[p].pc = "r_lock"]

\* vault_status_v1: the exists() check before the read.
status_check(s, p) ==
    IF s.dir.vault = 0 THEN Return(s, p, Ok(<<"missing", None>>))
    ELSE [s EXCEPT !.proc[p].pc = "r_lock"]

\* vault_search_items_v1: the empty query returns before the vault is read.
search_check(s, p) ==
    IF to_lowercase(trim(s.proc[p].op.query)) = <<>> THEN Return(s, p, Ok(<<>>))
    ELSE [s EXCEPT !.proc[p].pc = "r_lock"]

\* a & !b on the bits of two modes.
RECURSIVE and_not(_, _)
and_not(a, b) ==
    IF a = 0 THEN 0
    ELSE 2 * and_not(a \div 2, b \div 2) + (IF a % 2 = 1 /\ b % 2 = 0 THEN 1 ELSE 0)

\* open(2) with O_CREAT and mode 0o600: the mode of the file it creates.
created_mode(umask) == and_not(MODE_0600, umask)

\* NamedTempFile::new_in(dir): a new, empty file, created with mode 0600,
\* under a temporary name.
temp_create_in_place(s, p) ==
    LET t == IF s.dir.vault = 0 THEN FreshIno(s) ELSE s.dir.vault
    IN  [s EXCEPT !.ino = [i \in DOMAIN s.ino \cup {t} |->
                              IF i = t THEN [data |-> NoBlob,
                                             mode |-> created_mode(s.proc[p].op.umask)]
                              ELSE s.ino[i]],
                  !.dir.tmps = @ \cup {t},
                  !.proc[p].tmp = t,
                  !.proc[p].pc = "w_write"]

temp_create(s, p) ==
    LET t == FreshIno(s)
    IN  [s EXCEPT !.ino = [i \in DOMAIN s.ino \cup {t} |->
                              IF i = t THEN [data |-> NoBlob,
                                             mode |-> created_mode(s.proc[p].op.umask)]
                              ELSE s.ino[i]],
                  !.dir.tmps = @ \cup {t},
                  !.proc[p].tmp = t,
                  !.proc[p].pc = "w_write"]

\* write_all: a first write(2) takes the first half of the bytes, ...
write_first(s, p) ==
    LET new == s.proc[p].new
    IN  [s EXCEPT !.ino[s.proc[p].tmp].data =
                      Blob(SubSeq(new.bytes, 1, Len(new.bytes) \div 2), new.boxes),
                  !.proc[p].pc = "w_write2"]

\* ... and the next ones the rest.
write_rest(s, p) ==
    [s EXCEPT !.ino[s.proc[p].tmp].data = s.proc[p].new, !.proc[p].pc = "w_sync"]

\* sync_all on the temporary file: nothing another process can see.
sync_all(s, p) == [s EXCEPT !.proc[p].pc = "w_chmod"]

\* The temporary file left with the mode it was created with.
temp_chmod_omitted(s, p) == [s EXCEPT !.proc[p].pc = "w_persist"]

\* tmp.as_file().set_permissions(0o600)
temp_chmod(s, p) ==
    [s EXCEPT !.ino[s.proc[p].tmp].mode = MODE_0600, !.proc[p].pc = "w_persist"]

\* tmp.persist(vault_path): rename(2), the vault path now names the inode of
\* the temporary file.
persist_torn(s, p) ==
    LET t == s.proc[p].tmp
        bytes == s.ino[t].data.bytes
    IN  Reap([s EXCEPT !.ino[t].data.bytes = SubSeq(bytes, 1, Len(bytes) \div 2),
                       !.dir.vault = t,
                       !.dir.tmps = @ \ {t},
                       !.proc[p].tmp = 0,
                       !.proc[p].pc = "w_chmod2"])

persist(s, p) ==
    LET t == s.proc[p].tmp
    IN  Reap([s EXCEPT !.dir.vault = t,
                       !.dir.tmps = @ \ {t},
                       !.proc[p].tmp = 0,
                       !.proc[p].pc = "w_chmod2"])

\* set_permissions_0600(vault_path)
vault_chmod(s, p) ==
    [s EXCEPT !.ino[s.dir.vault].mode = MODE_0600, !.proc[p].pc = "w_fsync_dir"]

\* fsync_dir, then Ok: add returns the new id.
write_done(s, p) ==
    Return(s, p, IF s.proc[p].op.kind = "add" THEN Ok(s.proc[p].op.new_id) ELSE Ok(<<>>))

\* io::read_vault_bytes_unlocked: the File::open and read_to_end of
\* read_vault_bytes, with no lock taken.
read_vault_bytes_unlocked(s, p) == open_vault(s, p, "m_read")

\* io::write_vault_bytes_atomic_unlocked: the steps of write_vault_bytes_atomic
\* from the temporary file on, with no lock taken.
write_vault_bytes_atomic_unlocked(s, p) == temp_create(s, p)

\* dev_workflows::write_sensitive_file_atomic(path, contents): the unlocked
\* write, called with no VaultLock acquired by it or by its callers.  The
\* path is the caller's; in the model it is the one path there is.
write_sensitive_file_atomic(s, p) ==
    write_vault_bytes_atomic_unlocked(
        [s EXCEPT !.proc[p].new = Blob(s.proc[p].op.input.contents, {})], p)

\* ---- dev_workflows.rs: environment maps, export lines, templates ----

\* BTreeMap<String, String>: a function from its keys to their values.
BTreeMap_new == [k \in {} |-> <<>>]

\* BTreeMap::insert: the value of a key already present is replaced.
BTreeMap_insert(m, k, v) == [x \in DOMAIN m \cup {k} |-> IF x = k THEN v ELSE m[x]]

\* The iteration order of a BTreeMap: its keys ascending by Ord for String.
RECURSIVE btree_keys(_)
btree_keys(keys) ==
    IF keys = {} THEN <<>>
    ELSE Bind(CHOOSE k \in keys : \A j \in keys : str_cmp(k, j) <= 0,
              LAMBDA k : <<k>> \o btree_keys(keys \ {k}))

\* A map that keeps the value of the first item of a name.
RECURSIVE env_vars_for_profile_first_wins(_, _)
env_vars_for_profile_first_wins(its, profile) ==
    IF its = <<>> THEN BTreeMap_new
    ELSE Bind(env_vars_for_profile_first_wins(SubSeq(its, 1, Len(its) - 1), profile),
              LAMBDA env :
                  IF its[Len(its)].path # Some(profile) \/ its[Len(its)].name \in DOMAIN env
                  THEN env
                  ELSE BTreeMap_insert(env, its[Len(its)].name, its[Len(its)].secret))

\* env_vars_for_profile: the items in the order given; an item whose path is
\* not Some(profile) is skipped, the others insert name -> secret.
RECURSIVE env_vars_for_profile(_, _)
env_vars_for_profile(its, profile) ==
    IF its = <<>> THEN BTreeMap_new
    ELSE Bind(env_vars_for_profile(SubSeq(its, 1, Len(its) - 1), profile),
              LAMBDA env :
                  IF its[Len(its)].path # Some(profile) THEN env
                  ELSE BTreeMap_insert(env, its[Len(its)].name, its[Len(its)].secret))

\* char::is_ascii_uppercase, char::is_ascii_digit, '_'
is_ascii_uppercase(c) == c \in 65..90
is_ascii_digit(c) == c \in 48..57
UNDERSCORE == 95

\* A validity test that lets a digit come first.
is_valid_env_var_name_digit_first(str) ==
    /\ str # <<>>
    /\ \A i \in 1..Len(str) :
           str[i] = UNDERSCORE \/ is_ascii_uppercase(str[i]) \/ is_ascii_digit(str[i])

\* is_valid_env_var_name
is_valid_env_var_name(str) ==
    /\ str # <<>>
    /\ str[1] = UNDERSCORE \/ is_ascii_uppercase(str[1])
    /\ \A i \in 2..Len(str) :
           str[i] = UNDERSCORE \/ is_ascii_uppercase(str[i]) \/ is_ascii_digit(str[i])

\* The bytes of ', \, $, {, }, =, newline and of "export ".
QUOTE == 39
BACKSLASH == 92
DOLLAR == 36
LBRACE == 123
RBRACE == 125
EQUALS == 61
NEWLINE == 10
EXPORT_ == <<101, 120, 112, 111, 114, 116, 32>>

\* A quoting that copies every character between the two quotes.
bash_single_quote_unescaped(str) == <<QUOTE>> \o str \o <<QUOTE>>

\* bash_single_quote: '' for the empty string; otherwise the string between
\* single quotes with every ' written as '\''.
RECURSIVE bash_single_quote_chars(_)
bash_single_quote_chars(str) ==
    IF str = <<>> THEN <<>>
    ELSE (IF Head(str) = QUOTE THEN <<QUOTE, BACKSLASH, QUOTE, QUOTE>> ELSE <<Head(str)>>)
         \o bash_single_quote_chars(Tail(str))

bash_single_quote(str) ==
    IF str = <<>> THEN <<QUOTE, QUOTE>>
    ELSE <<QUOTE>> \o bash_single_quote_chars(str) \o <<QUOTE>>

\* bash_export_lines: the entries in key order; the first invalid key ends
\* the call with InvalidEnvVarName and the text built so far is dropped.
RECURSIVE bash_export_loop(_, _, _)
bash_export_loop(env, keys, out) ==
    IF keys = <<>> THEN Ok(out)
    ELSE IF ~is_valid_env_var_name(Head(keys)) THEN Err("InvalidEnvVarName", Head(keys))
    ELSE bash_export_loop(env, Tail(keys),
             out \o EXPORT_ \o Head(keys) \o <<EQUALS>>
                 \o bash_single_quote(env[Head(keys)]) \o <<NEWLINE>>)

bash_export_lines(env) == bash_export_loop(env, btree_keys(DOMAIN env), <<>>)

\* The inner loop of render_template: the offset of the first } at or after
\* i, or the length of the template.
RECURSIVE render_close(_, _)
render_close(bytes, i) ==
    IF i < Len(bytes) /\ bytes[i + 1] # RBRACE THEN render_close(bytes, i + 1) ELSE i

\* A rendering that scans again from the start of a substituted value.
RECURSIVE render_loop_rescanning(_, _, _, _, _)
render_loop_rescanning(bytes, env, i, last, out) ==
    IF i >= Len(bytes) THEN Ok(out \o SubSeq(bytes, last + 1, Len(bytes)))
    ELSE IF bytes[i + 1] = DOLLAR /\ i + 1 < Len(bytes) /\ bytes[i + 2] = LBRACE
    THEN Bind(render_close(bytes, i + 2), LAMBDA close :
         Bind(SubSeq(bytes, i + 3, close), LAMBDA name :
             IF close >= Len(bytes) THEN Err("UnterminatedPlaceholder", <<>>)
             ELSE IF ~is_valid_env_var_name(name) THEN Err("InvalidEnvVarName", name)
             ELSE IF name \notin DOMAIN env THEN Err("UnknownVariable", name)
             ELSE render_loop_rescanning(
                      env[name] \o SubSeq(bytes, close + 2, Len(bytes)), env, 0, 0,
                      out \o SubSeq(bytes, last + 1, i))))
    ELSE render_loop_rescanning(bytes, env, i + 1, last, out)

\* The outer loop of render_template, with i and last the byte offsets of the
\* code (from 0): bytes[i] of the code is bytes[i + 1] here.
RECURSIVE render_loop(_, _, _, _, _)
render_loop(bytes, env, i, last, out) ==
    IF i >= Len(bytes) THEN Ok(out \o SubSeq(bytes, last + 1, Len(bytes)))
    ELSE IF bytes[i + 1] = DOLLAR /\ i + 1 < Len(bytes) /\ bytes[i + 2] = LBRACE
    THEN Bind(render_close(bytes, i + 2), LAMBDA close :
         Bind(SubSeq(bytes, i + 3, close), LAMBDA name :
             IF close >= Len(bytes) THEN Err("UnterminatedPlaceholder", <<>>)
             ELSE IF ~is_valid_env_var_name(name) THEN Err("InvalidEnvVarName", name)
             ELSE IF name \notin DOMAIN env THEN Err("UnknownVariable", name)
             ELSE render_loop(bytes, env, close + 1, close + 1,
                              out \o SubSeq(bytes, last + 1, i) \o env[name])))
    ELSE render_loop(bytes, env, i + 1, last, out)

\* render_template (templates of ASCII bytes: from_utf8 of a name succeeds)
render_template(template, env) == render_loop(template, env, 0, 0, <<>>)

\* commands::workflows::env after the list of the vault has been read (the
\* items the list returned are the input): the map of the profile, printed
\* as JSON, or as export lines; an invalid name ends it with a usage error
\* and nothing printed.
env_print(s, p) ==
    Bind(env_vars_for_profile(s.proc[p].op.input.items, s.proc[p].op.input.profile),
         LAMBDA env :
             IF s.proc[p].op.input.format = "Json" THEN Return(s, p, Ok(env))
             ELSE Return(s, p, bash_export_lines(env)))

\* commands::workflows::inject: an output that exists is refused without
\* --force.
inject_exists(s, p) ==
    IF s.dir.vault # 0 /\ ~s.proc[p].op.input.force
    THEN Return(s, p, Err("Usage", <<>>))
    ELSE [s EXCEPT !.proc[p].pc = "j_render"]

\* An inject that writes the template as it is when it does not render.
inject_render_writes_anyway(s, p) ==
    Bind(render_template(s.proc[p].op.input.template, s.proc[p].op.input.vars),
         LAMBDA rendered :
             write_vault_bytes_atomic_unlocked(
                 [s EXCEPT !.proc[p].new =
                      Blob(IF rendered.ok THEN rendered.val ELSE s.proc[p].op.input.template, {})],
                 p))

\* commands::workflows::inject from the rendering on: a template that does
\* not render ends the command before the output is written; the rendered
\* text goes to write_sensitive_file_atomic.
inject_render(s, p) ==
    Bind(render_template(s.proc[p].op.input.template, s.proc[p].op.input.vars),
         LAMBDA rendered :
             IF ~rendered.ok THEN Return(s, p, rendered)
             ELSE write_vault_bytes_atomic_unlocked(
                      [s EXCEPT !.proc[p].new = Blob(rendered.val, {})], p))

\* The first step of each handler.
FirstPc(kind) ==
    CASE kind = "status" -> "st_exists"
      [] kind = "template" -> "t_write"
      [] kind = "env" -> "e_print"
      [] kind = "inject" -> "j_exists"
      [] kind = "init" -> "i_exists"
      [] kind = "search" -> "s_query"
      [] kind \in {"get", "list"} -> "r_lock"
      [] kind \in {"add", "edit", "rm"} -> "m_lock"

\* A process calls a handler.
begin(s, p, op) ==
    [s EXCEPT !.proc[p] = [Idle(NoRet) EXCEPT !.pc = FirstPc(op.kind), !.op = op],
              !.issued = @ \cup ({op.new_id} \ {0})]

\* The handler of p can take its next step: a process waiting for the lock
\* cannot until flock grants it.
CanStep(s, p) ==
    CASE s.proc[p].pc = "idle" -> FALSE
      [] s.proc[p].pc = "r_lock" -> CanAcquire(s, p, "Shared")
      [] s.proc[p].pc \in {"m_lock", "w_lock"} -> CanAcquire(s, p, "Exclusive")
      [] OTHER -> TRUE

\* The next step of the handler p is in.
Exec(s, p) ==
    LET pc == s.proc[p].pc
    IN  CASE pc = "st_exists" -> status_check(s, p)
          [] pc = "s_query" -> search_check(s, p)
          [] pc = "i_exists" -> init_check(s, p)
          [] pc = "r_lock" -> acquire(s, p, "Shared", "r_open")
          [] pc = "r_open" -> open_vault(s, p, "r_read")
          [] pc = "r_read" -> read_first(s, p, "r_more")
          [] pc = "r_more" -> finish_reader(s, p)
          [] pc = "m_lock" -> acquire(s, p, "Exclusive", "m_open")
          [] pc = "m_open" -> read_vault_bytes_unlocked(s, p)
          [] pc = "m_read" -> read_first(s, p, "m_more")
          [] pc = "m_more" -> finish_mutator_read(s, p)
          [] pc = "w_lock" -> acquire(s, p, "Exclusive", "w_create")
          [] pc = "w_create" -> IF s.proc[p].op.kind \in {"add", "edit", "rm"}
                                THEN write_vault_bytes_atomic_unlocked(s, p)
                                ELSE temp_create(s, p)
          [] pc = "w_write" -> write_first(s, p)
          [] pc = "w_write2" -> write_rest(s, p)
          [] pc = "w_sync" -> sync_all(s, p)
          [] pc = "w_chmod" -> temp_chmod(s, p)
          [] pc = "w_persist" -> persist(s, p)
          [] pc = "w_chmod2" -> vault_chmod(s, p)
          [] pc = "w_fsync_dir" -> write_done(s, p)
          [] pc = "t_write" -> write_sensitive_file_atomic(s, p)
          [] pc = "e_print" -> env_print(s, p)
          [] pc = "j_exists" -> inject_exists(s, p)
          [] pc = "j_render" -> inject_render(s, p)

\* The steps that hold the temporary file as a NamedTempFile.
TempPcs == {"w_write", "w_write2", "w_sync", "w_chmod", "w_persist"}

\* The steps that start with a system call that can fail.
FailPcs ==
    {"r_lock", "m_lock", "w_lock", "r_open", "m_open", "r_read", "r_more", "m_read",
     "m_more", "w_create", "w_chmod2", "w_fsync_dir"} \cup TempPcs

\* Where VaultLock::acquire can fail: the open, the chmod, the flock.
AcquireStages == {"open", "chmod", "flock"}

\* The NamedTempFile kept on an error: the file stays under its name.
io_fail_keeps_temp(s, p, stage) ==
    Return(s, p, Err(IF stage = "flock" THEN "LockFailed" ELSE "Io", s.proc[p].pc))

\* The system call of the step p is at fails and `?` returns the error:
\* VaultLock::acquire after the open has created the lock file leaves it
\* with the mode it was created with; a NamedTempFile that goes out of scope
\* (PersistError carries it and is dropped by io::Error::from) removes its
\* file; the lock guard is dropped.
io_fail(s, p, stage) ==
    Bind(s.proc[p].pc, LAMBDA pc :
    IF pc \in {"r_lock", "m_lock", "w_lock"}
    THEN IF stage = "open" \/ s.dir.lock # 0
         THEN Return(s, p, Err(IF stage = "flock" THEN "LockFailed" ELSE "Io", pc))
         ELSE Bind(FreshIno(s), LAMBDA l :
              Return([s EXCEPT !.ino = [i \in DOMAIN s.ino \cup {l} |->
                                          IF i = l THEN [data |-> NoBlob,
                                                         mode |-> created_mode(s.proc[p].op.umask)]
                                          ELSE s.ino[i]],
                               !.dir.lock = l],
                     p, Err(IF stage = "flock" THEN "LockFailed" ELSE "Io", pc)))
    ELSE IF pc \in TempPcs
    THEN Return([s EXCEPT !.dir.tmps = @ \ {s.proc[p].tmp}, !.proc[p].tmp = 0], p,
                Err("Io", pc))
    ELSE Return(s, p, Err("Io", pc)))

\* The process is killed: the kernel closes its descriptors, which drops its
\* flock; its temporary file stays in the directory.
kill(s, p) ==
    Reap([s EXCEPT !.proc[p] = Idle(Err("Aborted", s.proc[p].pc)), !.flock[p] = "none"])

\* The handler run to its return with no other process taking a step.
RECURSIVE Run(_, _)
Run(s, p) == IF s.proc[p].pc = "idle" THEN s ELSE Run(Exec(s, p), p)

\* op called by p on s, run to its return.
Call(s, p, op) == Run(begin(s, p, op), p)

(***************************************************************************)
(* 6. Specifications.                                                      *)
(***************************************************************************)

\* What the CSPRNG returns in one handler, from the seeds of its draws.
Rnd(salt, wn, pn, dek) ==
    [kdf_salt |-> Rep(salt, 16), wrap_nonce |-> Rep(wn, XCHACHA_NONCE_LEN),
     payload_nonce |-> Rep(pn, XCHACHA_NONCE_LEN), dek |-> Rep(dek, DEK_LEN)]

Seeds == 0..MaxRnd

Times == 0..MaxTime

\* The strings of the inputs are made of "a" (97), "b" (98), "A" (65) and
\* " " (32).
AddInput(t, name, path, tags, username, secret, urls, notes) ==
    [item_type |-> t, name |-> name, path |-> path, tags |-> tags,
     username |-> username, secret |-> secret, urls |-> urls, notes |-> notes]

\* EditItemInput with every field in the keep state.
EditKeep(id) ==
    [id |-> id, item_type |-> None, name |-> None, path |-> None, clear_path |-> FALSE,
     tags |-> None, clear_tags |-> FALSE, username |-> None, clear_username |-> FALSE,
     secret |-> None, urls |-> None, clear_urls |-> FALSE, notes |-> None,
     clear_notes |-> FALSE]

OpInit(pw, r) == [NoOp EXCEPT !.kind = "init", !.pw = pw, !.rnd = r]

OpStatus == [NoOp EXCEPT !.kind = "status"]

OpGet(pw, id) == [NoOp EXCEPT !.kind = "get", !.pw = pw, !.id = id]

OpList(pw) == [NoOp EXCEPT !.kind = "list", !.pw = pw]

OpSearch(pw, q) == [NoOp EXCEPT !.kind = "search", !.pw = pw, !.query = q]

OpAdd(pw, input, id, now, r) ==
    [NoOp EXCEPT !.kind = "add", !.pw = pw, !.input = input, !.new_id = id, !.now = now,
                 !.rnd = r]

OpEdit(pw, input, now, r) ==
    [NoOp EXCEPT !.kind = "edit", !.pw = pw, !.id = input.id, !.input = input,
                 !.now = now, !.rnd = r]

OpRm(pw, id, r) == [NoOp EXCEPT !.kind = "rm", !.pw = pw, !.id = id, !.rnd = r]

\* The write-out of a rendered template.
OpTemplate(contents) == [NoOp EXCEPT !.kind = "template", !.input = [contents |-> contents]]
OpEnv(its, profile, format) ==
    [NoOp EXCEPT !.kind = "env", !.input = [items |-> its, profile |-> profile, format |-> format]]
OpInject(template, env, force) ==
    [NoOp EXCEPT !.kind = "inject", !.input = [template |-> template, vars |-> env, force |-> force]]

\* Uuid::new_v4: 122 random bits, taken never to repeat.
Uuid_new_v4 == Ids \ issued

\* The master password of the vault, and a wrong one.
PW == "pw"

OtherPW == "other"

(***************************************************************************)
(* Spec: processes run handlers on one vault path, their steps interleaved, *)
(* and may be killed at any step.                                          *)
(***************************************************************************)

\* The handlers the concurrent processes call.
ConcOps ==
    {OpInit(PW, Rnd(r, r, r, r)) : r \in Seeds}
    \cup {OpStatus, OpList(PW), OpSearch(PW, <<97>>)}
    \cup {OpGet(PW, id) : id \in Ids}
    \cup {OpAdd(PW, AddInput("Login", <<97>>, None, <<>>, None, <<98>>, <<>>, None),
                id, 0, Rnd(r, r, r, r)) : id \in Uuid_new_v4, r \in Seeds}
    \cup {OpEdit(PW, [EditKeep(id) EXCEPT !.name = Some(<<98>>)], 1, Rnd(r, r, r, r)) :
              id \in Ids, r \in Seeds}
    \cup {OpRm(PW, id, Rnd(r, r, r, r)) : id \in Ids, r \in Seeds}

\* tally: handlers started, processes killed, system calls failed, inits that returned Ok, the
\* byte strings renamed into place; the vault last sealed from chosen inputs
\* and the byte altered in it; the last handler called; for each uuid the
\* input its add was given, and the uuids whose rm returned Ok.
Tally0 ==
    [ops |-> 0, aborts |-> 0, fails |-> 0, inits_ok |-> 0, written |-> {}, sealed |-> None,
     tamper |-> None, last |-> NoOp, supplied |-> [id \in Ids |-> None], removed |-> {}]

Init ==
    /\ ino = <<>>
    /\ dir = [vault |-> 0, lock |-> 0, tmps |-> {}]
    /\ flock = [p \in Procs |-> "none"]
    /\ proc = [p \in Procs |-> Idle(NoRet)]
    /\ issued = {}
    /\ tally = Tally0

\* The variables take the values of state t.
Becomes(t) ==
    /\ ino' = t.ino
    /\ dir' = t.dir
    /\ flock' = t.flock
    /\ proc' = t.proc
    /\ issued' = t.issued

\* A process calls a handler.
Begin(p) ==
    /\ proc[p].pc = "idle"
    /\ tally.ops < MaxOps
    /\ \E op \in ConcOps : Becomes(begin(State, p, op))
    /\ tally' = [tally EXCEPT !.ops = @ + 1]

\* A handler takes its next step.
StepTo(p, t) ==
    /\ Becomes(t)
    /\ tally' = [tally EXCEPT
           !.inits_ok = IF proc[p].op.kind = "init" /\ t.proc[p].pc = "idle"
                           /\ t.proc[p].ret.ok
                        THEN @ + 1 ELSE @,
           !.written = IF proc[p].pc = "w_persist"
                       THEN @ \cup {proc[p].new.bytes} ELSE @]

Step(p) ==
    /\ CanStep(State, p)
    /\ StepTo(p, Exec(State, p))

\* A process is killed in the middle of a handler.
Abort(p) ==
    /\ proc[p].pc # "idle"
    /\ tally.aborts < MaxAborts
    /\ Becomes(kill(State, p))
    /\ tally' = [tally EXCEPT !.aborts = @ + 1]

Next == \E p \in Procs : Begin(p) \/ Step(p) \/ Abort(p)

Spec == Init /\ [][Next]_vars

(***************************************************************************)
(* Properties of Spec: locking and the atomic write.                       *)
(***************************************************************************)

Mutators == {"add", "edit", "rm"}

Writers == Mutators \cup {"init"}

\* The content of the file at the vault path; NoBlob when there is none.
VaultData == IF dir.vault = 0 THEN NoBlob ELSE ino[dir.vault].data

\* The items a vault decrypts to under pw; <<>> when it does not load.
ItemsOf(vault, pw) ==
    Bind(load_payload_v1(vault, pw), LAMBDA l : IF l.ok THEN l.payload.items ELSE <<>>)

\* p takes tmp.persist, the rename.
Renames(p) == proc[p].pc = "w_persist" /\ proc'[p].pc = "w_chmod2"

\* C1: concurrent add, edit and rm on one vault path are serialised by the
\* exclusive lock held from before the read until after the rename: what a
\* mutator works on is the current content of the vault, and at its rename
\* the vault changes from the items it holds at that moment to those items
\* with this one operation applied, so no update of another is lost.
C1_MutatorsSerialised ==
    [][\A p \in Procs :
          /\ (proc[p].op.kind \in Mutators /\ proc[p].pc = "m_more")
                 => read_rest(State, p) = VaultData
          /\ (proc[p].op.kind \in Mutators /\ Renames(p))
                 => /\ load_payload_v1(VaultData, proc[p].op.pw).ok
                    /\ mutate(ItemsOf(VaultData, proc[p].op.pw), proc[p].op).ok
                    /\ ItemsOf(VaultData', proc[p].op.pw)
                           = mutate(ItemsOf(VaultData, proc[p].op.pw), proc[p].op).items
      ]_vars

\* One process has renamed its new vault into place while another mutator
\* waited for the lock.
C1_Witness ==
    \E p \in Procs, q \in Procs :
        /\ proc[p].pc = "w_chmod2" /\ proc[p].op.kind \in Mutators
        /\ proc[q].pc = "m_lock" /\ proc[q].op.kind \in Mutators
        /\ ItemsOf(VaultData, PW) # <<>>

\* C2: the bytes a reader (status, get, list, search) obtains from the vault
\* file are exactly the bytes of one write that was renamed into place, never
\* a mixture of two writes nor a prefix of one.
C2_ReaderSeesOneWrite ==
    \A p \in Procs : proc[p].pc = "r_more" => read_rest(State, p).bytes \in tally.written

\* A reader is about to obtain the bytes of a vault that was written while a
\* writer is in its handler.
C2_Witness ==
    \E p \in Procs, q \in Procs :
        /\ proc[p].pc = "r_more"
        /\ proc[q].op.kind \in Writers
        /\ tally.written # {}

\* C3: (as stated) once a vault file exists at the path, no vault_init_v1
\* replaces it: an init renames its new vault into place only when there is
\* no file at the path.
C3_InitNeverReplaces ==
    [][\A p \in Procs :
          (proc[p].op.kind = "init" /\ Renames(p)) => dir.vault = 0
      ]_vars

\* C4: whatever step is taken, a kill included, the content at the vault path
\* stays what it was or becomes, whole, the bytes of the write that renames
\* its temporary file there: an aborted write leaves the complete previous
\* bytes or the complete new bytes.
C4_OldOrNew ==
    [][\/ VaultData' = VaultData
       \/ \E p \in Procs : /\ Renames(p)
                           /\ VaultData' = proc[p].new
                           /\ proc[p].new.bytes # <<>>
      ]_vars

\* A process was killed when it had written half of its temporary file; the
\* vault path holds the bytes of an earlier write.
C4_Witness ==
    \E p \in Procs :
        /\ ~proc[p].ret.ok
        /\ proc[p].ret.err = "Aborted"
        /\ proc[p].ret.detail = "w_write2"
        /\ dir.vault # 0
        /\ VaultData.bytes \in tally.written
        /\ \E t \in dir.tmps : ino[t].data.bytes # <<>>

(***************************************************************************)
(* SpecCodec: one vault is sealed from chosen inputs and written; then      *)
(* handlers are called on it with the right or a wrong password, or one    *)
(* byte of the file is altered and a handler is called with the right one. *)
(***************************************************************************)

\* " A ", "a", "": tags as a caller may pass them.
RawTags == << <<32, 65, 32>>, <<97>>, <<>> >>

\* "b", " A", "b"
RawUrls == << <<98>>, <<32, 65>>, <<98>> >>

InA == AddInput("Login", <<97>>, None, RawTags, None, <<98>>, <<>>, None)

InB == AddInput("ApiToken", <<98>>, Some(<<97>>), <<>>, Some(<<97>>), <<98>>, RawUrls,
                Some(<<97>>))

InC == AddInput("SecureNote", <<97>>, Some(<<98>>), << <<98>>, <<97>> >>, None, <<>>,
                << <<65>> >>, None)

\* write_vault_bytes_atomic(vault_path, bytes) run to its return.
write_vault_bytes_atomic(s, p, bytes) ==
    Run([s EXCEPT !.proc[p] = [Idle(NoRet) EXCEPT !.pc = "w_lock", !.new = bytes,
                                                  !.op = [NoOp EXCEPT !.kind = "seal"]]], p)

KdfChoices == {for_tests, recommended_macos}

\* The payloads sealed: none, one and two items, built as add builds them.
CodecPayloads ==
    {[schema_version |-> 1, items |-> <<>>],
     [schema_version |-> 1, items |-> add_to_items(<<>>, InB, 1, 1)]}

\* The handlers called on the sealed vault.
CodecOps ==
    UNION {{OpGet(pw, 1), OpList(pw), OpAdd(pw, InA, 2, 0, Rnd(0, 0, 0, 0)),
            OpEdit(pw, [EditKeep(1) EXCEPT !.name = Some(<<97>>)], 1, Rnd(0, 0, 0, 0)),
            OpRm(pw, 1, Rnd(0, 0, 0, 0))} : pw \in {PW, OtherPW}}

\* What a byte is changed by (mod 256).
TamperDeltas == {1, 6, 128, 255}

SealTo(kdf, r, payload, sealed) ==
    /\ Becomes([write_vault_bytes_atomic(State, 1, sealed.vault) EXCEPT
                    !.issued = {payload.items[i].id : i \in 1..Len(payload.items)}])
    /\ tally' = [tally EXCEPT
           !.sealed = Some([kdf_params |-> kdf, kdf_salt |-> r.kdf_salt, pw |-> PW,
                            payload |-> payload, rnd |-> r, vault |-> sealed.vault]),
           !.written = @ \cup {sealed.vault.bytes}]

\* seal_vault_v1 on chosen inputs, and the bytes written to the vault path.
CodecSeal ==
    /\ tally.sealed = None
    /\ \E kdf \in KdfChoices, a \in Seeds, b \in Seeds, payload \in CodecPayloads :
           SealTo(kdf, Rnd(a, a, b, a), payload,
                  seal_vault_v1(kdf, Rep(a, 16), PW, payload, Rnd(a, a, b, a)))

\* One byte of the vault file is changed.
CodecTamper ==
    /\ tally.sealed # None
    /\ tally.tamper = None
    /\ tally.last = NoOp
    /\ \E pos \in 1..Len(ino[dir.vault].data.bytes), d \in TamperDeltas :
           /\ ino' = [ino EXCEPT ![dir.vault].data.bytes[pos] = (@ + d) % 256]
           /\ tally' = [tally EXCEPT !.tamper = Some([pos |-> pos, delta |-> d])]
    /\ UNCHANGED <<dir, flock, proc, issued>>

\* A handler is called on the vault: on the altered one once, with the
\* password it was sealed under.
CodecLoad ==
    /\ tally.sealed # None
    /\ tally.ops < MaxOps
    /\ tally.tamper # None => tally.last = NoOp
    /\ \E op \in CodecOps :
           /\ tally.tamper # None => op.pw = PW
           /\ op.new_id \notin issued
           /\ Becomes(Call(State, 1, op))
           /\ tally' = [tally EXCEPT !.ops = @ + 1, !.last = op]

NextCodec == CodecSeal \/ CodecTamper \/ CodecLoad

SpecCodec == Init /\ [][NextCodec]_vars

\* The vault sealed, and the byte altered in it.
Sealed == Unwrap(tally.sealed)

Tamper == Unwrap(tally.tamper)

\* encode_header_v1's layout: the trailer is the payload ciphertext, the last
\* record of the header the payload nonce, before it the wrapped DEK, whose
\* value ends with the ciphertext of the DEK.
SealedHeaderLen ==
    Len(Sealed.vault.bytes) - (JsonLen(payload_to_json(Sealed.payload)) + TAG_LEN)

WrappedCtEnd == SealedHeaderLen - (2 + 4 + XCHACHA_NONCE_LEN)

WrappedCtStart == WrappedCtEnd - (DEK_LEN + TAG_LEN)

\* The altered byte lies in the header, in the ciphertext of the DEK, in the
\* payload ciphertext (offsets count from 0, positions from 1).
TamperInHeader == Tamper.pos <= SealedHeaderLen

TamperInWrappedCt == Tamper.pos > WrappedCtStart /\ Tamper.pos <= WrappedCtEnd

TamperInPayloadCt == Tamper.pos > SealedHeaderLen

AuthFailed == Err("AuthFailed", "")

\* C5: on a vault written under password P, get, list, add, edit and rm
\* called with another password return AuthFailed, and they return the same
\* AuthFailed with P when a byte of the wrapped DEK's ciphertext or of the
\* payload ciphertext was altered.
C5_AuthFailedAlike ==
    (/\ tally.sealed # None
     /\ tally.last.kind \in {"get", "list", "add", "edit", "rm"}
     /\ \/ tally.tamper = None /\ tally.last.pw # Sealed.pw
        \/ /\ tally.tamper # None
           /\ tally.last.pw = Sealed.pw
           /\ TamperInWrappedCt \/ TamperInPayloadCt)
    => proc[1].ret = AuthFailed

\* edit with the right password has returned AuthFailed on a vault whose
\* wrapped DEK was altered.
C5_Witness ==
    /\ tally.tamper # None
    /\ TamperInWrappedCt
    /\ tally.last.kind = "edit"
    /\ tally.last.pw = Sealed.pw
    /\ proc[1].ret = AuthFailed

\* A wrong password has returned AuthFailed to a mutator.
C5_WitnessWrongPassword ==
    /\ tally.tamper = None
    /\ tally.last.kind = "add"
    /\ tally.last.pw # Sealed.pw
    /\ proc[1].ret = AuthFailed

\* get or list was called with the right password on a vault with a byte of
\* its header altered.
HeaderTampered ==
    /\ tally.sealed # None
    /\ tally.tamper # None
    /\ TamperInHeader
    /\ tally.last.kind \in {"get", "list"}
    /\ tally.last.pw = Sealed.pw

\* The salt, the wrap nonce with the DEK's ciphertext, the payload nonce:
\* the header bytes that are key material, nonce or ciphertext.
TamperInSaltNonceOrCt ==
    \/ Tamper.pos > SealedHeaderLen - XCHACHA_NONCE_LEN
    \/ TamperInWrappedCt
    \/ /\ Tamper.pos > WrappedCtStart - (4 + XCHACHA_NONCE_LEN)
       /\ Tamper.pos <= WrappedCtStart - 4
    \/ /\ Tamper.pos > FIXED_HEADER_LEN + (2 + 4 + 16) + (2 + 4)
       /\ Tamper.pos <= FIXED_HEADER_LEN + (2 + 4 + 16) + (2 + 4) + 16

SealedCts == {b.ct : b \in Sealed.vault.boxes}

\* C7: parsing the bytes seal_vault_v1 emits recovers every field of the
\* header and the ciphertext trailer; the AAD recomputed from the parsed
\* header is the AAD both ciphertexts were sealed with; loading with the
\* same password recovers the payload.
C7_RoundTrip ==
    tally.sealed # None =>
        Bind(parse_vault_v1(Sealed.vault.bytes), LAMBDA parsed :
        /\ parsed.ok
        /\ parsed.header = [kdf_params |-> Sealed.kdf_params,
                            kdf_salt |-> Sealed.kdf_salt,
                            wrap_nonce |-> Sealed.rnd.wrap_nonce,
                            wrapped_dek |-> parsed.header.wrapped_dek,
                            payload_nonce |-> Sealed.rnd.payload_nonce]
        /\ Len(parsed.header.wrapped_dek) = DEK_LEN + TAG_LEN
        /\ parsed.header.wrapped_dek \in SealedCts
        /\ parsed.payload_ciphertext \in SealedCts
        /\ Sealed.vault.bytes = encode_header_v1(parsed.header) \o parsed.payload_ciphertext
        /\ \A b \in Sealed.vault.boxes : aad_for_v1(parsed.header) = b.aad
        /\ load_payload_v1(Sealed.vault, Sealed.pw)
               = [ok |-> TRUE, payload |-> Sealed.payload, header |-> parsed.header])

\* A vault with an item in it was sealed with the recommended parameters and
\* loads.
C7_Witness ==
    /\ tally.sealed # None
    /\ Sealed.payload.items # <<>>
    /\ Sealed.kdf_params = recommended_macos
    /\ load_payload_v1(Sealed.vault, Sealed.pw).ok

(***************************************************************************)
(* SpecItems: one process calls the handlers one after another with the    *)
(* password of the vault.                                                  *)
(***************************************************************************)

\* Handlers called in one behaviour of SpecItems.
MaxSeqOps == 4

ItemInputs == {InA, InB, InC}

\* The edits: every field kept, a new name, a new path, no path, new tags,
\* new urls with no tags, and the other fields.
EditInputs(id) ==
    {EditKeep(id),
     [EditKeep(id) EXCEPT !.name = Some(<<98>>)],
     [EditKeep(id) EXCEPT !.path = Some(<<98>>)],
     [EditKeep(id) EXCEPT !.clear_path = TRUE, !.path = Some(<<97>>)],
     [EditKeep(id) EXCEPT !.tags = Some(<< <<32, 98>>, <<65>>, <<98>>, <<32>> >>)],
     [EditKeep(id) EXCEPT !.urls = Some(<< <<98, 32>>, <<65>>, <<>>, <<98>> >>),
                          !.clear_tags = TRUE],
     [EditKeep(id) EXCEPT !.item_type = Some("SecureNote"), !.username = Some(<<98>>),
                          !.secret = Some(<<97, 97>>), !.clear_notes = TRUE]}

\* The handler has run: the variables, the count and the last call.
Called(op, t) ==
    /\ Becomes(t)
    /\ tally' = [tally EXCEPT
           !.ops = @ + 1,
           !.last = op,
           !.supplied = IF ~t.proc[1].ret.ok THEN @
                        ELSE IF op.kind = "add" THEN [@ EXCEPT ![op.new_id] = Some(op.input)]
                        ELSE IF op.kind \in {"edit", "rm"} THEN [@ EXCEPT ![op.id] = None]
                        ELSE @,
           !.removed = IF op.kind = "rm" /\ t.proc[1].ret.ok THEN @ \cup {op.id} ELSE @]

ItemsInit ==
    /\ tally.ops < MaxSeqOps
    /\ \E r \in Seeds :
           Called(OpInit(PW, Rnd(r, r, r, r)), Call(State, 1, OpInit(PW, Rnd(r, r, r, r))))

ItemsAdd ==
    /\ tally.ops < MaxSeqOps
    /\ \E input \in ItemInputs, id \in Uuid_new_v4, now \in Times :
           Called(OpAdd(PW, input, id, now, Rnd(0, 0, 0, 0)),
                  Call(State, 1, OpAdd(PW, input, id, now, Rnd(0, 0, 0, 0))))

ItemsEdit ==
    /\ tally.ops < MaxSeqOps
    /\ \E id \in Ids, now \in Times : \E input \in EditInputs(id) :
           Called(OpEdit(PW, input, now, Rnd(1, 1, 1, 1)),
                  Call(State, 1, OpEdit(PW, input, now, Rnd(1, 1, 1, 1))))

ItemsRm ==
    /\ tally.ops < MaxSeqOps
    /\ \E id \in Ids :
           Called(OpRm(PW, id, Rnd(0, 0, 0, 0)), Call(State, 1, OpRm(PW, id, Rnd(0, 0, 0, 0))))

ItemsGet ==
    /\ tally.ops < MaxSeqOps
    /\ \E id \in Ids : Called(OpGet(PW, id), Call(State, 1, OpGet(PW, id)))

ItemsList ==
    /\ tally.ops < MaxSeqOps
    /\ Called(OpList(PW), Call(State, 1, OpList(PW)))

NextItems == ItemsInit \/ ItemsAdd \/ ItemsEdit \/ ItemsRm \/ ItemsGet \/ ItemsList

SpecItems == Init /\ [][NextItems]_vars

\* What get(id) and list return in the current state.
GetNow(id) == Call(State, 1, OpGet(PW, id)).proc[1].ret

ListNow == Call(State, 1, OpList(PW)).proc[1].ret

\* The item carries what add was given.
AsSupplied(item, id, input) ==
    /\ item.id = id
    /\ item.item_type = input.item_type
    /\ item.name = input.name
    /\ item.path = input.path
    /\ item.username = input.username
    /\ item.secret = input.secret
    /\ item.notes = input.notes
    /\ item.tags = normalize_tags(input.tags)
    /\ item.urls = normalize_urls(input.urls)

\* C8: from the return of add with id X until an edit or rm of X, whatever is
\* done to other ids, get(X) returns the item with id X carrying the supplied
\* fields (tags and urls normalised); once rm(X) has returned Ok, get(X)
\* returns ItemNotFound and list holds no item with id X.
C8_AddGetRm ==
    \A id \in Ids :
        /\ tally.supplied[id] # None =>
               Bind(GetNow(id), LAMBDA got :
                   got.ok /\ AsSupplied(got.val, id, Unwrap(tally.supplied[id])))
        /\ id \in tally.removed =>
               /\ GetNow(id) = Err("ItemNotFound", "")
               /\ Bind(ListNow, LAMBDA l :
                      l.ok /\ \A i \in 1..Len(l.val) : l.val[i].id # id)

\* get(X) has returned the item as supplied after another id was added.
C8_Witness ==
    /\ tally.last.kind = "get"
    /\ tally.supplied[tally.last.id] # None
    /\ \E id \in Ids \ {tally.last.id} : tally.supplied[id] # None
    /\ proc[1].ret.ok
    /\ AsSupplied(proc[1].ret.val, tally.last.id, Unwrap(tally.supplied[tally.last.id]))

\* a comes before b, or is b, in the order of (path or "", name, id).
KeyLeq(a, b) ==
    \/ str_cmp(unwrap_or_empty(a.path), unwrap_or_empty(b.path)) < 0
    \/ /\ unwrap_or_empty(a.path) = unwrap_or_empty(b.path)
       /\ \/ str_cmp(a.name, b.name) < 0
          \/ a.name = b.name /\ a.id <= b.id

Sorted(items) == \A i \in 1..Len(items) : \A j \in i..Len(items) : KeyLeq(items[i], items[j])

\* C9: in every state reached by init, add, edit and rm the stored items,
\* which are what list returns, in that order, are sorted ascending by
\* (path or "", name, id).
C9_ItemsSorted ==
    dir.vault # 0 =>
        /\ Sorted(ItemsOf(VaultData, PW))
        /\ ListNow = Ok(ItemsOf(VaultData, PW))

\* Two items are stored, the first of them created after the second, and an
\* edit has just returned Ok.
C9_Witness ==
    Bind(ItemsOf(VaultData, PW), LAMBDA items :
        /\ Len(items) = 2
        /\ items[1].created_at > items[2].created_at
        /\ tally.last.kind = "edit"
        /\ proc[1].ret.ok)

\* Trimmed, and not empty.
Trimmed(str) == str # <<>> /\ trim(str) = str

\* Sorted with no duplicates: each string is below the next.
Ascending(v) == \A i \in 1..(Len(v) - 1) : str_cmp(v[i], v[i + 1]) < 0

\* C10: in every state reached by init, add, edit and rm every item's tags
\* are trimmed, lowercased, not empty, sorted and without duplicates, and its
\* urls are trimmed, not empty, sorted by their bytes and without duplicates,
\* their case kept.
C10_TagsUrlsNormalised ==
    Bind(ItemsOf(VaultData, PW), LAMBDA items :
        \A i \in 1..Len(items) :
            /\ \A k \in 1..Len(items[i].tags) :
                   Trimmed(items[i].tags[k]) /\ to_lowercase(items[i].tags[k]) = items[i].tags[k]
            /\ Ascending(items[i].tags)
            /\ \A k \in 1..Len(items[i].urls) : Trimmed(items[i].urls[k])
            /\ Ascending(items[i].urls))

\* One item holds the single tag "a" made from " A ", "a", "", another the
\* urls "A", "b" made from "b", " A", "b".
C10_Witness ==
    Bind(ItemsOf(VaultData, PW), LAMBDA items :
        /\ \E i \in 1..Len(items) :
               /\ tally.supplied[items[i].id] = Some(InA)
               /\ items[i].tags = << <<97>> >>
        /\ \E i \in 1..Len(items) :
               /\ tally.supplied[items[i].id] = Some(InB)
               /\ items[i].urls = << <<65>>, <<98>> >>)

\* The items stored before and after a step.
ItemsNow == ItemsOf(VaultData, PW)

ItemsNext == ItemsOf(VaultData', PW)

IdsOf(items) == {items[i].id : i \in 1..Len(items)}

\* The step is a call of the handler that returned Ok.
ReturnedOk(kind) ==
    /\ tally'.ops = tally.ops + 1
    /\ tally'.last.kind = kind
    /\ proc'[1].ret.ok

\* C11: no two stored items have the same id: the id add assigns is none of
\* the ids stored and is added to them, and edit leaves the ids stored as
\* they are (Uuid::new_v4 taken never to return a uuid twice).
C11_IdsUnique ==
    [][Bind(ItemsNow, LAMBDA old : Bind(ItemsNext, LAMBDA new :
          /\ Cardinality(IdsOf(new)) = Len(new)
          /\ ReturnedOk("add") =>
                 /\ tally'.last.new_id \notin IdsOf(old)
                 /\ IdsOf(new) = IdsOf(old) \cup {tally'.last.new_id}
          /\ ReturnedOk("edit") => IdsOf(new) = IdsOf(old)))
      ]_vars

\* Two items are stored and an edit of one of them has just returned Ok.
C11_Witness ==
    /\ Len(ItemsNow) = 2
    /\ tally.last.kind = "edit"
    /\ tally.last.id \in IdsOf(ItemsNow)
    /\ proc[1].ret.ok

\* C12: (as stated) whatever the wall-clock readings of add and edit, every
\* stored item has created_at <= updated_at.
C12_CreatedLeqUpdated ==
    Bind(ItemsNow, LAMBDA items :
        \A i \in 1..Len(items) : items[i].created_at <= items[i].updated_at)

\* C14: an edit with every field in the keep state that returns Ok leaves
\* the stored items as they were, in the order they were, but for the
\* updated_at of the item with the id, which is the clock's reading.
C14_KeepEditFrame ==
    [][(ReturnedOk("edit") /\ tally'.last.input = EditKeep(tally'.last.id)) =>
          Bind(ItemsNow, LAMBDA old : Bind(find_item(old, tally'.last.id), LAMBDA idx :
              /\ idx # 0
              /\ Len(ItemsNext) = Len(old)
              /\ \A i \in 1..Len(old) :
                    ItemsNext[i] = IF i = idx
                                   THEN [old[i] EXCEPT !.updated_at = tally'.last.now]
                                   ELSE old[i]))
      ]_vars

\* An edit with every field kept has returned Ok on the first of two stored
\* items, at a reading of the clock after the item's creation.
C14_Witness ==
    Bind(ItemsNow, LAMBDA items :
        /\ Len(items) = 2
        /\ tally.last.kind = "edit"
        /\ tally.last.input = EditKeep(items[1].id)
        /\ proc[1].ret.ok
        /\ items[1].updated_at > items[1].created_at
        /\ items[1].tags # <<>>)

\* The header of the vault file before and after a step.
HeaderNow == parse_vault_v1(VaultData.bytes).header

HeaderNext == parse_vault_v1(VaultData'.bytes).header

\* C15: add, edit and rm that return Ok write a file with the kdf_params and
\* kdf_salt of the file they read (so those of init), and with the wrap
\* nonce, payload nonce and DEK the CSPRNG returned in this call.
C15_KdfKeptNoncesFresh ==
    [][\A kind \in Mutators : ReturnedOk(kind) =>
          Bind(HeaderNow, LAMBDA old : Bind(HeaderNext, LAMBDA new :
              /\ new.kdf_params = old.kdf_params
              /\ new.kdf_salt = old.kdf_salt
              /\ new.wrap_nonce = tally'.last.rnd.wrap_nonce
              /\ new.payload_nonce = tally'.last.rnd.payload_nonce
              /\ \E b \in VaultData'.boxes :
                     /\ b.ct = new.wrapped_dek
                     /\ b.nonce = new.wrap_nonce
                     /\ b.msg = tally'.last.rnd.dek))
      ]_vars

\* add has returned Ok on a vault whose salt and nonces were drawn from
\* another seed than the one of this call.
C15_Witness ==
    /\ tally.last.kind = "add"
    /\ proc[1].ret.ok
    /\ HeaderNow.kdf_salt # tally.last.rnd.kdf_salt
    /\ HeaderNow.wrap_nonce = tally.last.rnd.wrap_nonce
    /\ HeaderNow.kdf_salt = Rep(1, 16)

(***************************************************************************)
(* SpecEdit: init, add of one item, then one edit whose input carries, for *)
(* every clearable field, each of keep, set, clear and clear with set.     *)
(***************************************************************************)

\* An item with every optional field filled, and one with none.
InFull == AddInput("Login", <<97>>, Some(<<97>>), RawTags, Some(<<97>>), <<98>>, RawUrls,
                   Some(<<97>>))

InBare == AddInput("Login", <<97>>, None, <<>>, None, <<98>>, <<>>, None)

\* " B", "A": tags and urls an edit may set.
SetTags == << <<32, 66>>, <<65>> >>

SetUrls == << <<32, 66>>, <<65>> >>

Flags == [{"path", "tags", "username", "urls", "notes", "secret"} -> BOOLEAN]

\* EditItemInput with the clear flags c and the values of the fields of v.
TriInput(id, c, v) ==
    [EditKeep(id) EXCEPT
        !.path = IF v["path"] THEN Some(<<98>>) ELSE None,
        !.clear_path = c["path"],
        !.tags = IF v["tags"] THEN Some(SetTags) ELSE None,
        !.clear_tags = c["tags"],
        !.username = IF v["username"] THEN Some(<<98>>) ELSE None,
        !.clear_username = c["username"],
        !.urls = IF v["urls"] THEN Some(SetUrls) ELSE None,
        !.clear_urls = c["urls"],
        !.notes = IF v["notes"] THEN Some(<<98>>) ELSE None,
        !.clear_notes = c["notes"],
        !.secret = IF v["secret"] THEN Some(<<97, 97>>) ELSE None]

\* The struct has no clear flag for the secret.
TriInputs(id) == {TriInput(id, c, v) : c \in {f \in Flags : ~f["secret"]}, v \in Flags}

EditInit ==
    /\ tally.ops = 0
    /\ Called(OpInit(PW, Rnd(0, 0, 0, 0)), Call(State, 1, OpInit(PW, Rnd(0, 0, 0, 0))))

EditAdd ==
    /\ tally.ops = 1
    /\ \E input \in {InFull, InBare} :
           Called(OpAdd(PW, input, 1, 0, Rnd(0, 0, 0, 0)),
                  Call(State, 1, OpAdd(PW, input, 1, 0, Rnd(0, 0, 0, 0))))

EditEdit ==
    /\ tally.ops = 2
    /\ \E input \in TriInputs(1) :
           Called(OpEdit(PW, input, 1, Rnd(1, 1, 1, 1)),
                  Call(State, 1, OpEdit(PW, input, 1, Rnd(1, 1, 1, 1))))

NextEdit == EditInit \/ EditAdd \/ EditEdit

SpecEdit == Init /\ [][NextEdit]_vars

\* The four cases of a clearable field: what is stored after the edit, from
\* the flag, the value of the input (None when not set), what was stored and
\* what the value is stored as.
TriState(clear, value, old, new, cleared, stored) ==
    /\ (clear /\ IsSome(value)) => new = cleared
    /\ (clear /\ ~IsSome(value)) => new = cleared
    /\ (~clear /\ IsSome(value)) => new = stored
    /\ (~clear /\ ~IsSome(value)) => new = old

\* C13: after a successful edit each of path, tags, username, urls and notes
\* is cleared when the input has its clear flag, with or without a value;
\* holds the value (tags and urls normalised) when the input has the value
\* alone; is as before when the input has neither.  The secret is the value
\* when one is given and as before otherwise; the input has no way to clear it.
C13_ClearOverSet ==
    [][ReturnedOk("edit") =>
          Bind(tally'.last.input, LAMBDA input :
          Bind(ItemsNow[find_item(ItemsNow, input.id)], LAMBDA old :
          Bind(ItemsNext[find_item(ItemsNext, input.id)], LAMBDA new :
              /\ TriState(input.clear_path, input.path, old.path, new.path, None, input.path)
              /\ TriState(input.clear_tags, input.tags, old.tags, new.tags, <<>>,
                          normalize_tags(unwrap_or_empty(input.tags)))
              /\ TriState(input.clear_username, input.username, old.username, new.username,
                          None, input.username)
              /\ TriState(input.clear_urls, input.urls, old.urls, new.urls, <<>>,
                          normalize_urls(unwrap_or_empty(input.urls)))
              /\ TriState(input.clear_notes, input.notes, old.notes, new.notes, None,
                          input.notes)
              /\ new.secret = IF IsSome(input.secret) THEN Unwrap(input.secret) ELSE old.secret
              /\ new.secret # <<>>
              /\ "clear_secret" \notin DOMAIN input)))
      ]_vars

\* The item added with every field filled was edited with clear and a value
\* for its path and its tags, a value alone for its urls and nothing for its
\* notes: path and tags are cleared, the urls are the new ones, normalised,
\* and the notes are the old ones.
C13_Witness ==
    /\ tally.last.kind = "edit"
    /\ proc[1].ret.ok
    /\ Bind(tally.last.input, LAMBDA input :
           /\ input.clear_path /\ IsSome(input.path)
           /\ input.clear_tags /\ IsSome(input.tags)
           /\ ~input.clear_urls /\ IsSome(input.urls)
           /\ ~input.clear_notes /\ ~IsSome(input.notes))
    /\ Len(ItemsNow) = 1
    /\ ItemsNow[1].path = None
    /\ ItemsNow[1].tags = <<>>
    /\ ItemsNow[1].urls = << <<65>>, <<66>> >>
    /\ ItemsNow[1].notes = InFull.notes

(***************************************************************************)
(* SpecIo: processes run handlers and template write-outs on one path,     *)
(* under two umasks, and a system call of a handler may fail.              *)
(***************************************************************************)

\* Handlers started and system calls failed in one behaviour of SpecIo.
MaxIoOps == 3

MaxFails == 1

\* 0o022 and 0o277: under the second, open(2) creates a 0o600 file as 0o400.
Umasks == {18, 191}

\* Bytes with the layout of a vault whose Argon2 memory parameter is 0.
ZeroMemoryVault ==
    encode_header_v1([kdf_params |-> [for_tests EXCEPT !.memory_kib = 0],
                      kdf_salt |-> Rep(0, 16),
                      wrap_nonce |-> Rep(0, XCHACHA_NONCE_LEN),
                      wrapped_dek |-> Rep(0, DEK_LEN + TAG_LEN),
                      payload_nonce |-> Rep(0, XCHACHA_NONCE_LEN)]) \o Rep(0, TAG_LEN)

\* The handlers of SpecIo: the writers under both umasks; a get with a wrong
\* password; templates that are not a vault.
IoOps ==
    {[op EXCEPT !.umask = u] :
        u \in Umasks,
        op \in {OpInit(PW, Rnd(0, 0, 0, 0)), OpRm(PW, 1, Rnd(0, 0, 0, 0)),
                OpEdit(PW, EditKeep(1), 1, Rnd(1, 1, 1, 1)), OpTemplate(<<97>>)}
               \cup {OpAdd(PW, InBare, id, 0, Rnd(1, 1, 1, 1)) : id \in Uuid_new_v4 \cap {1}}}
    \cup {OpGet(OtherPW, 1), OpList(PW), OpStatus, OpTemplate(ZeroMemoryVault)}

IoBegin(p) ==
    /\ proc[p].pc = "idle"
    /\ tally.ops < MaxIoOps
    /\ \E op \in IoOps : Becomes(begin(State, p, op))
    /\ tally' = [tally EXCEPT !.ops = @ + 1, !.last = NoOp]

\* The system call a handler is at fails.
IoFail(p) ==
    /\ proc[p].pc \in FailPcs
    /\ tally.fails < MaxFails
    /\ \E stage \in IF proc[p].pc \in {"r_lock", "m_lock", "w_lock"} THEN AcquireStages
                    ELSE {"call"} :
           Becomes(io_fail(State, p, stage))
    /\ tally' = [tally EXCEPT !.fails = @ + 1, !.last = proc[p].op]

\* A handler takes its next step; the handler that returns is recorded.
IoStep(p) ==
    /\ CanStep(State, p)
    /\ Bind(Exec(State, p), LAMBDA t :
           /\ Becomes(t)
           /\ tally' = [tally EXCEPT !.last = IF t.proc[p].pc = "idle" THEN proc[p].op
                                               ELSE NoOp])

NextIo == \E p \in Procs : IoBegin(p) \/ IoStep(p) \/ IoFail(p)

SpecIo == Init /\ [][NextIo]_vars

\* p returns from its handler in this step.
Returns(p) == proc[p].pc # "idle" /\ proc'[p].pc = "idle"

\* C16: the file at the vault path has mode 0600 from the moment it is
\* there, whatever the umask of the writer, and when init, add, edit or rm
\* returns Ok the vault file and the lock file are there with mode 0600.
C16_Modes0600 ==
    [][/\ dir'.vault # 0 => ino'[dir'.vault].mode = MODE_0600
       /\ \A p \in Procs :
              (Returns(p) /\ proc[p].op.kind \in Writers /\ proc'[p].ret.ok)
                  => /\ dir'.vault # 0
                     /\ dir'.lock # 0
                     /\ ino'[dir'.lock].mode = MODE_0600
      ]_vars

\* An add whose process runs under umask 0o277 has just returned, and the
\* last handler of every process returned Ok.
C16_Witness ==
    /\ tally.last.kind = "add"
    /\ tally.last.umask = 191
    /\ \A p \in Procs : proc[p].pc = "idle" /\ proc[p].ret.ok
    /\ dir.vault # 0
    /\ ino[dir.vault].mode = MODE_0600
    /\ ino[dir.lock].mode = MODE_0600

\* The steps of the atomic write after the temporary file was created.
AfterTempPcs == TempPcs \cup {"w_chmod2", "w_fsync_dir"}

\* C17: when a call returns an error from a step of the atomic write after
\* the temporary file was created, the temporary file of the call is not in
\* the directory any more, and no temporary file is there but those of the
\* calls in progress.
C17_TempRemoved ==
    [][\A p \in Procs :
          (Returns(p) /\ proc[p].pc \in AfterTempPcs /\ ~proc'[p].ret.ok)
              => /\ proc[p].tmp \notin dir'.tmps
                 /\ proc[p].tmp \in dir.tmps => proc[p].tmp \notin DOMAIN ino'
                 /\ dir'.tmps = {proc'[q].tmp : q \in Procs} \ {0}
      ]_vars

\* The rename of an init failed; no temporary file is left.
C17_Witness ==
    /\ tally.last.kind = "init"
    /\ \E p \in Procs : proc[p].pc = "idle" /\ proc[p].ret = Err("Io", "w_persist")
    /\ dir.tmps = {}
    /\ \A q \in Procs : proc[q].pc = "idle"

\* C18: a process that is not in a handler holds no lock on the lock file,
\* however its last handler returned, so when no other process is in a
\* handler both kinds of lock are granted.
C18_LockReleased ==
    /\ \A p \in Procs : proc[p].pc = "idle" => flock[p] = "none"
    /\ \A p \in Procs :
           (\A q \in Procs \ {p} : proc[q].pc = "idle")
               => CanAcquire(State, p, "Exclusive") /\ CanAcquire(State, p, "Shared")

\* A mutator returned ItemNotFound, after it took the lock, and the other
\* process holds the exclusive lock.
C18_Witness ==
    \E p \in Procs, q \in Procs :
        /\ proc[p].pc = "idle"
        /\ ~proc[p].ret.ok
        /\ proc[p].ret.err = "ItemNotFound"
        /\ flock[q] = "Exclusive"

\* The steps of add, edit and rm that are in the unlocked read or write.
UnlockedPcs == {"m_open", "m_read", "m_more", "w_create"} \cup AfterTempPcs

\* C19: (as stated) a process that is in an unlocked read or write, in add,
\* edit, rm or the write-out of a template, holds the exclusive lock.
C19_UnlockedUnderLock ==
    \A p \in Procs :
        \/ proc[p].op.kind \in Mutators /\ proc[p].pc \in UnlockedPcs
        \/ proc[p].op.kind = "template" /\ proc[p].pc \in {"t_write"} \cup AfterTempPcs
        => flock[p] = "Exclusive"

\* C20: status returns (missing, no version) when there is no file at the
\* vault path at its check and (locked, 1) when there is one; a vault file
\* that is there stays there; one appears only by the rename of an init,
\* and when init returns Ok there is one.
C20_StatusMachine ==
    [][/\ dir.vault # 0 => dir'.vault # 0
       /\ (dir.vault = 0 /\ dir'.vault # 0)
              => \E p \in Procs : proc[p].op.kind = "init" /\ Renames(p)
       /\ \A p \in Procs :
              /\ (proc[p].pc = "st_exists" /\ proc'[p].pc # "st_exists"
                     /\ proc'[p].ret.ok /\ Returns(p))
                     => dir.vault = 0 /\ proc'[p].ret = Ok(<<"missing", None>>)
              /\ (proc[p].pc = "st_exists" /\ proc'[p].pc # "st_exists" /\ dir.vault = 0)
                     => Returns(p) /\ (proc'[p].ret.ok \/ proc'[p].ret.err = "Aborted")
              /\ (Returns(p) /\ proc[p].op.kind = "status" /\ proc[p].pc # "st_exists")
                     => \/ /\ dir.vault # 0
                           /\ proc'[p].ret = Ok(<<"locked", Some(VERSION_V1)>>)
                        \/ ~proc'[p].ret.ok /\ proc'[p].ret.err = "Aborted"
              /\ (Returns(p) /\ proc[p].op.kind = "init" /\ proc'[p].ret.ok)
                     => dir'.vault # 0
      ]_vars

\* One status returned missing and, after an init, another returned locked
\* with version 1.
C20_Witness ==
    \E p \in Procs, q \in Procs :
        /\ proc[p].pc = "idle" /\ proc[p].ret = Ok(<<"missing", None>>)
        /\ proc[q].pc = "idle" /\ proc[q].ret = Ok(<<"locked", Some(VERSION_V1)>>)
        /\ dir.vault # 0

(***************************************************************************)
(* SpecSearch: init, up to two adds, then searches.                        *)
(***************************************************************************)

\* "N", path "P", tag "T", username "U", secret "S", url "L", notes "O".
SrFull == AddInput("Login", <<78>>, Some(<<80>>), << <<84>> >>, Some(<<85>>), <<83>>,
                   << <<76>> >>, Some(<<79>>))

\* "n b" with the secret "z" and nothing else.
SrBare == AddInput("Login", <<110, 32, 98>>, None, <<>>, None, <<122>>, <<>>, None)

\* "", " ", "n", "N", "n ", " b", " P ", "p", "t", "u", "l", "o", "s", "z".
Queries ==
    {<<>>, <<32>>, <<110>>, <<78>>, <<110, 32>>, <<32, 98>>, <<32, 80, 32>>, <<112>>,
     <<116>>, <<117>>, <<108>>, <<111>>, <<115>>, <<122>>}

SearchInit ==
    /\ tally.ops = 0
    /\ Called(OpInit(PW, Rnd(0, 0, 0, 0)), Call(State, 1, OpInit(PW, Rnd(0, 0, 0, 0))))

SearchAdd ==
    /\ tally.ops \in 1..2
    /\ tally.last.kind # "search"
    /\ \E input \in {SrFull, SrBare}, id \in Uuid_new_v4 :
           Called(OpAdd(PW, input, id, 0, Rnd(0, 0, 0, 0)),
                  Call(State, 1, OpAdd(PW, input, id, 0, Rnd(0, 0, 0, 0))))

SearchQuery ==
    /\ tally.ops \in 1..3
    /\ tally.last.kind # "search"
    /\ \E q \in Queries : Called(OpSearch(PW, q), Call(State, 1, OpSearch(PW, q)))

NextSearch == SearchInit \/ SearchAdd \/ SearchQuery

SpecSearch == Init /\ [][NextSearch]_vars

\* The strings of an item a query is matched against: not the secret.
Haystacks(item) ==
    {item.name} \cup {item.tags[i] : i \in 1..Len(item.tags)}
    \cup {item.urls[i] : i \in 1..Len(item.urls)}
    \cup (IF IsSome(item.path) THEN {Unwrap(item.path)} ELSE {})
    \cup (IF IsSome(item.username) THEN {Unwrap(item.username)} ELSE {})
    \cup (IF IsSome(item.notes) THEN {Unwrap(item.notes)} ELSE {})

\* needle is a substring of some matched string of the item, case ignored.
SubstringOfSome(item, needle) ==
    \E h \in Haystacks(item) : contains(to_lowercase(h), to_lowercase(needle))

\* The items of the vault, in their order, that have needle as a substring.
Having(items, needle) == SelectSeq(items, LAMBDA item : SubstringOfSome(item, needle))

\* search has just returned Ok.
Searched == tally.last.kind = "search" /\ proc[1].ret.ok

\* C21: (as stated) search returns, in list order, the items that have the
\* lowercased query as a substring of a matched string, and nothing for the
\* empty query.
C21_SearchQueryAsGiven ==
    Searched => proc[1].ret.val = IF tally.last.query = <<>> THEN <<>>
                                  ELSE Having(ItemsNow, tally.last.query)

\* C21: search returns, in list order, the items that have the query with
\* its surrounding whitespace removed, lowercased, as a substring of the
\* lowercased name, path, a tag, username, a url or notes, whatever the
\* secret is; nothing when the query is empty or all whitespace.
C21_SearchTrimmed ==
    Searched => proc[1].ret.val = IF trim(tally.last.query) = <<>> THEN <<>>
                                  ELSE Having(ItemsNow, trim(tally.last.query))

\* "n " was searched in a vault holding the items named "N" and "n b" and
\* both were returned.
C21_Witness ==
    /\ Searched
    /\ tally.last.query = <<110, 32>>
    /\ Len(ItemsNow) = 2
    /\ ItemsNow[1].name # ItemsNow[2].name
    /\ proc[1].ret.val = ItemsNow

\* ---- The developer workflows: env and inject, one call from the start ----

\* The longest secret and the longest name and template the calls draw.
MaxValueLen == 3
MaxNameLen == 2
MaxPieces == 3

\* Every string of at most n bytes of the alphabet.
Strs(alphabet, n) == UNION {[1..k -> alphabet] : k \in 0..n}

\* A stored item of a path, a name and a secret.
EnvItem(id, path, name, secret) ==
    new_item(AddInput("Login", name, path, <<>>, None, secret, <<>>, None), id, 0)

\* Items of the paths "p", "P", "pq" and of no path: two of the path "p"
\* share the name "A".
EnvCandidates ==
    {EnvItem(1, Some(<<112>>), <<65>>, <<49>>),
     EnvItem(2, Some(<<112>>), <<65>>, <<50>>),
     EnvItem(3, Some(<<80>>), <<65>>, <<51>>),
     EnvItem(4, None, <<66>>, <<52>>),
     EnvItem(5, Some(<<112, 113>>), <<66>>, <<53>>),
     EnvItem(6, Some(<<112>>), <<66>>, <<54>>)}

\* The items of a set in the order the vault stores them.
RECURSIVE Stored(_)
Stored(set) ==
    IF set = {} THEN <<>>
    ELSE Bind(CHOOSE x \in set : \A y \in set : item_sort_cmp(x, y) <= 0,
              LAMBDA x : <<x>> \o Stored(set \ {x}))

Profiles == {<<>>, <<112>>, <<80>>, <<112, 113>>, <<113>>}

\* Names of the bytes _, A, a and 1; secrets of the bytes ', \, $, space,
\* newline and a.
KeyNames == Strs({UNDERSCORE, 65, 97, 49}, MaxNameLen)
Values == Strs({QUOTE, BACKSLASH, DOLLAR, 32, NEWLINE, 97}, MaxValueLen)

\* The calls of env: the map of a profile as JSON; export lines for names
\* of every shape; export lines for secrets of every shape.
EnvCalls ==
    {OpEnv(Stored(set), profile, "Json") : set \in SUBSET EnvCandidates, profile \in Profiles}
    \cup {OpEnv(Stored({EnvItem(1, Some(<<112>>), k1, <<49>>), EnvItem(2, Some(<<112>>), k2, <<>>)}),
                <<112>>, "Bash") : k1 \in KeyNames, k2 \in KeyNames}
    \cup {OpEnv(<<EnvItem(1, Some(<<112>>), <<75>>, v)>>, <<112>>, "Bash") : v \in Values}

WfEnv ==
    /\ tally.ops = 0
    /\ \E op \in EnvCalls : Called(op, Call(State, 1, op))

\* The map the last call of env was given items for.
EnvItems == tally.last.input.items
EnvProfile == tally.last.input.profile
EnvReturned(format) ==
    tally.last.kind = "env" /\ tally.last.input.format = format /\ proc[1].pc = "idle"

\* The items of the list with the path of the profile and a name.
Contributing(name) ==
    {i \in 1..Len(EnvItems) : EnvItems[i].path = Some(EnvProfile) /\ EnvItems[i].name = name}

\* C22: the map of a profile has a name exactly when some item has that name
\* and a path equal to the profile byte for byte, and maps the name to the
\* secret of the item of the greatest id among them, which is the last of
\* them in the stored order.
C22_ProfileMap ==
    EnvReturned("Json") =>
        /\ proc[1].ret.ok
        /\ DOMAIN proc[1].ret.val = {EnvItems[i].name : i \in {j \in 1..Len(EnvItems) :
                                         EnvItems[j].path = Some(EnvProfile)}}
        /\ \A name \in DOMAIN proc[1].ret.val :
               \E i \in Contributing(name) :
                   /\ \A j \in Contributing(name) : EnvItems[j].id <= EnvItems[i].id /\ j <= i
                   /\ proc[1].ret.val[name] = EnvItems[i].secret

C22_Witness ==
    /\ EnvReturned("Json")
    /\ Len(EnvItems) = 6
    /\ EnvProfile = <<112>>
    /\ DOMAIN proc[1].ret.val = {<<65>>, <<66>>}
    /\ proc[1].ret.val[<<65>>] = <<50>>

\* The map the export lines of the last call of env were made from.
EnvMap == env_vars_for_profile(EnvItems, EnvProfile)

\* A string of the pattern [_A-Z][_A-Z0-9]*.
MatchesEnvName(str) ==
    /\ Len(str) >= 1
    /\ str[1] \in {UNDERSCORE} \cup (65..90)
    /\ \A i \in 2..Len(str) : str[i] \in {UNDERSCORE} \cup (65..90) \cup (48..57)

\* The keys of a set in ascending order.
KeysAscending(keys) ==
    CHOOSE ks \in [1..Cardinality(keys) -> keys] :
        \A i, j \in 1..Cardinality(keys) : i < j => str_cmp(ks[i], ks[j]) < 0

RECURSIVE Flatten(_)
Flatten(lines) == IF lines = <<>> THEN <<>> ELSE Head(lines) \o Flatten(Tail(lines))

\* The line of an entry: export K=<quoted value>, ended by a newline.
ExportLine(k, v) == EXPORT_ \o k \o <<EQUALS>> \o bash_single_quote(v) \o <<NEWLINE>>

Count(str, c) == Cardinality({i \in 1..Len(str) : str[i] = c})

\* C23: the export lines are returned exactly when every key has the pattern
\* [_A-Z][_A-Z0-9]*; then the text is one export line per entry in ascending
\* key order (as many newlines as entries when no value holds a newline);
\* otherwise the result is InvalidEnvVarName of a key of the map and carries
\* no text, also when a key before it was valid.
C23_ExportLines ==
    EnvReturned("Bash") =>
        /\ proc[1].ret.ok <=> \A k \in DOMAIN EnvMap : MatchesEnvName(k)
        /\ proc[1].ret.ok =>
               /\ proc[1].ret.val =
                      Flatten([i \in 1..Cardinality(DOMAIN EnvMap) |->
                                  ExportLine(KeysAscending(DOMAIN EnvMap)[i],
                                             EnvMap[KeysAscending(DOMAIN EnvMap)[i]])])
               /\ (\A k \in DOMAIN EnvMap : Count(EnvMap[k], NEWLINE) = 0)
                      => Count(proc[1].ret.val, NEWLINE) = Cardinality(DOMAIN EnvMap)
        /\ ~proc[1].ret.ok =>
               /\ proc[1].ret.err = "InvalidEnvVarName"
               /\ proc[1].ret.detail \in {k \in DOMAIN EnvMap : ~MatchesEnvName(k)}
               /\ "val" \notin DOMAIN proc[1].ret

C23_Witness ==
    /\ EnvReturned("Bash")
    /\ DOMAIN EnvMap = {<<65>>, <<97>>}
    /\ ~proc[1].ret.ok
    /\ proc[1].ret.detail = <<97>>

\* The shell reading a word (POSIX quoting): between single quotes every
\* character stands for itself up to the next single quote; outside them a
\* backslash makes the next character literal (a backslash-newline is
\* dropped), a blank or a newline ends the word, and $, ` and " start
\* expansions or double quotes, which the reading here refuses.
RECURSIVE sh_word(_, _, _)
sh_word(text, quoted, acc) ==
    IF text = <<>> THEN [ok |-> ~quoted, val |-> acc, rest |-> <<>>]
    ELSE IF quoted
    THEN IF Head(text) = QUOTE THEN sh_word(Tail(text), FALSE, acc)
         ELSE sh_word(Tail(text), TRUE, Append(acc, Head(text)))
    ELSE IF Head(text) = QUOTE THEN sh_word(Tail(text), TRUE, acc)
    ELSE IF Head(text) = BACKSLASH
    THEN IF Len(text) = 1 THEN [ok |-> FALSE, val |-> acc, rest |-> <<>>]
         ELSE IF text[2] = NEWLINE THEN sh_word(SubSeq(text, 3, Len(text)), FALSE, acc)
         ELSE sh_word(SubSeq(text, 3, Len(text)), FALSE, Append(acc, text[2]))
    ELSE IF Head(text) \in {32, 9, NEWLINE} THEN [ok |-> TRUE, val |-> acc, rest |-> text]
    ELSE IF Head(text) \in {DOLLAR, 96, 34} THEN [ok |-> FALSE, val |-> acc, rest |-> text]
    ELSE sh_word(Tail(text), FALSE, Append(acc, Head(text)))

\* The offset of the first = of a text, or 0.
FirstEquals(text) ==
    IF \E i \in 1..Len(text) : text[i] = EQUALS
    THEN CHOOSE i \in 1..Len(text) : text[i] = EQUALS /\ \A j \in 1..(i - 1) : text[j] # EQUALS
    ELSE 0

\* The shell reading a script of export commands: the assignments in order,
\* ended by one of ok FALSE at the first thing that is not export NAME=word
\* followed by a newline.
RECURSIVE sh_exports(_)
sh_exports(text) ==
    IF text = <<>> THEN <<>>
    ELSE IF Len(text) < Len(EXPORT_) \/ SubSeq(text, 1, Len(EXPORT_)) # EXPORT_
              \/ FirstEquals(text) = 0
    THEN <<[ok |-> FALSE, k |-> <<>>, v |-> <<>>]>>
    ELSE Bind(sh_word(SubSeq(text, FirstEquals(text) + 1, Len(text)), FALSE, <<>>),
              LAMBDA w :
                  IF ~w.ok \/ w.rest = <<>> \/ Head(w.rest) # NEWLINE
                  THEN <<[ok |-> FALSE, k |-> <<>>, v |-> <<>>]>>
                  ELSE <<[ok |-> TRUE,
                          k |-> SubSeq(text, Len(EXPORT_) + 1, FirstEquals(text) - 1),
                          v |-> w.val]>> \o sh_exports(Tail(w.rest)))

\* C24: the export lines, read back by the shell, assign to every key
\* exactly the value of the map, whatever quotes, backslashes, dollar signs,
\* blanks and newlines the value holds, and the empty value too.
C24_QuoteRoundTrip ==
    (EnvReturned("Bash") /\ proc[1].ret.ok) =>
        sh_exports(proc[1].ret.val) =
            [i \in 1..Cardinality(DOMAIN EnvMap) |->
                [ok |-> TRUE, k |-> KeysAscending(DOMAIN EnvMap)[i],
                 v |-> EnvMap[KeysAscending(DOMAIN EnvMap)[i]]]]

C24_Witness ==
    /\ EnvReturned("Bash")
    /\ proc[1].ret.ok
    /\ DOMAIN EnvMap = {<<75>>}
    /\ EnvMap[<<75>>] = <<QUOTE, BACKSLASH, NEWLINE>>
    /\ Len(proc[1].ret.val) = 18

\* The pieces templates are put together from: $, {, }, a, ${A}, ${B}, ${,
\* ${} and ${a}.
Pieces ==
    {<<DOLLAR>>, <<LBRACE>>, <<RBRACE>>, <<97>>,
     <<DOLLAR, LBRACE, 65, RBRACE>>, <<DOLLAR, LBRACE, 66, RBRACE>>,
     <<DOLLAR, LBRACE>>, <<DOLLAR, LBRACE, RBRACE>>, <<DOLLAR, LBRACE, 97, RBRACE>>}

Templates == {Flatten(ps) : ps \in Strs(Pieces, MaxPieces)}

\* The maps: none; A; A whose value is the placeholder of B, and B; A and B
\* whose values one after the other read as a placeholder.
EnvMaps ==
    {BTreeMap_new,
     BTreeMap_insert(BTreeMap_new, <<65>>, <<118>>),
     BTreeMap_insert(BTreeMap_insert(BTreeMap_new, <<65>>, <<DOLLAR, LBRACE, 66, RBRACE>>),
                     <<66>>, <<119>>),
     BTreeMap_insert(BTreeMap_insert(BTreeMap_new, <<65>>, <<DOLLAR>>),
                     <<66>>, <<LBRACE, 66, RBRACE>>)}

WfInject ==
    /\ tally.ops = 0
    /\ \E template \in Templates, env \in EnvMaps :
           Called(OpInject(template, env, FALSE), Call(State, 1, OpInject(template, env, FALSE)))

InjectReturned == tally.last.kind = "inject" /\ proc[1].pc = "idle"
InjTemplate == tally.last.input.template
InjMap == tally.last.input.vars

\* The places of a template where ${ stands, the place of the first } after
\* one (0 when there is none) and the name between them.
Placeholders(t) == {i \in 1..(Len(t) - 1) : t[i] = DOLLAR /\ t[i + 1] = LBRACE}
CloseOf(t, i) ==
    IF \E j \in (i + 2)..Len(t) : t[j] = RBRACE
    THEN CHOOSE j \in (i + 2)..Len(t) : t[j] = RBRACE /\ \A k \in (i + 2)..(j - 1) : t[k] # RBRACE
    ELSE 0
NameOf(t, i) == SubSeq(t, i + 2, CloseOf(t, i) - 1)

\* The ${ at i is not closed, or its name is not valid, or not in the map.
BadPlaceholder(t, m, i) ==
    \/ CloseOf(t, i) = 0
    \/ ~MatchesEnvName(NameOf(t, i))
    \/ NameOf(t, i) \notin DOMAIN m

\* C25: a template with a ${ that is not closed, or whose name is not valid
\* (the empty name too) or not in the map, does not render: the result is
\* one of the three errors and carries no text, and inject leaves no output
\* file and no temporary file.
C25_RenderFailsWhole ==
    (InjectReturned /\ \E i \in Placeholders(InjTemplate) : BadPlaceholder(InjTemplate, InjMap, i)) =>
        /\ ~proc[1].ret.ok
        /\ proc[1].ret.err \in {"UnterminatedPlaceholder", "InvalidEnvVarName", "UnknownVariable"}
        /\ "val" \notin DOMAIN proc[1].ret
        /\ dir.vault = 0
        /\ dir.tmps = {}

\* ${A}${B} with only A in the map: the first placeholder was substituted
\* before the second failed.
C25_Witness ==
    /\ InjectReturned
    /\ InjTemplate = <<DOLLAR, LBRACE, 65, RBRACE, DOLLAR, LBRACE, 66, RBRACE>>
    /\ DOMAIN InjMap = {<<65>>}
    /\ proc[1].ret = Err("UnknownVariable", <<66>>)
    /\ dir.vault = 0

\* The text of a template with every placeholder replaced, left to right:
\* the value of a placeholder is followed by the rendering of what comes
\* after its }, and any other byte is copied.
RECURSIVE Rendered(_, _)
Rendered(t, m) ==
    IF t = <<>> THEN <<>>
    ELSE IF 1 \in Placeholders(t)
    THEN m[NameOf(t, 1)] \o Rendered(SubSeq(t, CloseOf(t, 1) + 1, Len(t)), m)
    ELSE <<Head(t)>> \o Rendered(Tail(t), m)

\* C26: a template whose placeholders are all closed, valid and in the map
\* renders, and the output file holds the template with each placeholder
\* replaced by its value in one pass from the left: a $ with no { after it
\* and a $ at the end are copied, and a value is not scanned again.
C26_RenderOnePass ==
    (InjectReturned /\ \A i \in Placeholders(InjTemplate) : ~BadPlaceholder(InjTemplate, InjMap, i)) =>
        /\ proc[1].ret.ok
        /\ dir.vault # 0
        /\ VaultData.bytes = Rendered(InjTemplate, InjMap)

\* $${A}$ with A the placeholder of B: the value stays as it is, between
\* the two dollar signs.
C26_Witness ==
    /\ InjectReturned
    /\ InjTemplate = <<DOLLAR, DOLLAR, LBRACE, 65, RBRACE, DOLLAR>>
    /\ <<65>> \in DOMAIN InjMap
    /\ InjMap[<<65>>] = <<DOLLAR, LBRACE, 66, RBRACE>>
    /\ proc[1].ret.ok
    /\ VaultData.bytes = <<DOLLAR, DOLLAR, LBRACE, 66, RBRACE, DOLLAR>>

NextWorkflows == WfEnv \/ WfInject

SpecWorkflows == Init /\ [][NextWorkflows]_vars

\* ---- Records of types not defined, put into the header of a sealed vault ----

\* Types parse_vault_v1 has no arm for, and values: none, one byte, and the
\* bytes of a record of a defined type with a value that type refuses.
UnknownTypes == {0, TLV_PAYLOAD_NONCE + 1, 65535}
UnknownValues == {<<>>, <<0>>, push_tlv(<<>>, TLV_KDF_ALG, <<9>>)}

\* The offsets in a TLV block where a record starts or the block ends.
RECURSIVE TlvBoundaries(_, _)
TlvBoundaries(tlvs, pos) ==
    IF pos >= Len(tlvs) THEN {pos}
    ELSE {pos} \cup TlvBoundaries(tlvs, pos + 6 + FromLE32(Slice(tlvs, pos + 2, pos + 6)))

\* The file with the record (typ, value) put in at offset at of its TLV
\* block, and header_len raised by the length of the record.
InsertTlv(bytes, at, typ, value) ==
    Slice(bytes, 0, 10)
    \o LE32(FromLE32(Slice(bytes, 10, 14)) + Len(push_tlv(<<>>, typ, value)))
    \o Slice(bytes, 14, FIXED_HEADER_LEN + at)
    \o push_tlv(<<>>, typ, value)
    \o Slice(bytes, FIXED_HEADER_LEN + at, Len(bytes))

\* A writer of a later format version puts a record of its own into the
\* header of the sealed vault.
TlvInsert ==
    /\ tally.sealed # None
    /\ tally.tamper = None
    /\ tally.last = NoOp
    /\ \E at \in TlvBoundaries(Slice(VaultData.bytes, FIXED_HEADER_LEN,
                                     FromLE32(Slice(VaultData.bytes, 10, 14))), 0),
          typ \in UnknownTypes, value \in UnknownValues :
           /\ ino' = [ino EXCEPT ![dir.vault].data =
                          Blob(InsertTlv(VaultData.bytes, at, typ, value), VaultData.boxes)]
           /\ tally' = [tally EXCEPT !.tamper = Some([pos |-> at, delta |-> typ])]
    /\ UNCHANGED <<dir, flock, proc, issued>>

NextTlv == CodecSeal \/ TlvInsert \/ CodecLoad

SpecTlv == Init /\ [][NextTlv]_vars

\* The vault holds a record put in and has not been written since.
TlvInserted ==
    /\ tally.sealed # None
    /\ tally.tamper # None
    /\ tally.last.kind \in {"none", "get", "list"}

\* C27: a sealed vault with a well-formed record of a type not defined put
\* in at a record boundary of its TLV block, header_len raised by the
\* record's length, parses to the header fields it had, and get and list
\* with the password it was sealed under return the items it was sealed with.
C27_UnknownTlvIgnored ==
    TlvInserted =>
        /\ Len(VaultData.bytes) > Len(Sealed.vault.bytes)
        /\ parse_vault_v1(VaultData.bytes).ok
        /\ parse_vault_v1(VaultData.bytes).header = parse_vault_v1(Sealed.vault.bytes).header
        /\ tally.last.kind = "list" => proc[1].ret = Ok(Sealed.payload.items)
        /\ tally.last.kind = "get" =>
               IF \E i \in 1..Len(Sealed.payload.items) : Sealed.payload.items[i].id = tally.last.id
               THEN proc[1].ret.ok /\ proc[1].ret.val \in
                        {Sealed.payload.items[i] : i \in 1..Len(Sealed.payload.items)}
               ELSE proc[1].ret = Err("ItemNotFound", "")

\* A record was put in before the first record of the header and list
\* returned the one item sealed.
C27_Witness ==
    /\ TlvInserted
    /\ Tamper.pos = 0
    /\ tally.last.kind = "list"
    /\ proc[1].ret.ok
    /\ Len(proc[1].ret.val) = 1

\* ---- Calls one after the other, with either password, one of them with a
\* ---- failing system call

MaxCalls == 3

\* The handlers called: init; add, edit, rm, get, list and search with the
\* password of the vault and with another; search with an empty query, a
\* query of one blank and a query that matches.
CallOps ==
    {OpInit(PW, Rnd(0, 0, 0, 0))}
    \cup UNION {{OpEdit(pw, [EditKeep(1) EXCEPT !.name = Some(<<98>>)], 1, Rnd(1, 1, 1, 1)),
                 OpRm(pw, 1, Rnd(1, 1, 1, 1)), OpGet(pw, 1), OpList(pw),
                 OpSearch(pw, <<>>), OpSearch(pw, <<32>>), OpSearch(pw, <<97>>)}
                \cup {OpAdd(pw, InBare, id, 0, Rnd(1, 1, 1, 1)) : id \in Uuid_new_v4 \cap {1}}
                : pw \in {PW, OtherPW}}

\* The handler run until it is at a step of pcs, or has returned.
RECURSIVE RunUntil(_, _, _)
RunUntil(s, p, pcs) ==
    IF s.proc[p].pc = "idle" \/ s.proc[p].pc \in pcs THEN s ELSE RunUntil(Exec(s, p), p, pcs)

\* A handler runs to its return.
CallReturns ==
    /\ tally.ops < MaxCalls
    /\ \E op \in CallOps : Called(op, Call(State, 1, op))

\* A handler runs to a step whose system call fails, and returns the error.
CallFails ==
    /\ tally.ops < MaxCalls
    /\ tally.fails < MaxFails
    /\ \E op \in CallOps, pc \in FailPcs :
           Bind(RunUntil(begin(State, 1, op), 1, {pc}), LAMBDA t :
               /\ t.proc[1].pc = pc
               /\ \E stage \in IF pc \in {"r_lock", "m_lock", "w_lock"} THEN AcquireStages
                               ELSE {"call"} :
                      /\ Becomes(io_fail(t, 1, stage))
                      /\ tally' = [tally EXCEPT !.ops = @ + 1, !.fails = @ + 1, !.last = op])

NextCalls == CallReturns \/ CallFails

SpecCalls == Init /\ [][NextCalls]_vars

\* The step is a call of a handler of kinds.
CallOf(kinds) == tally'.ops = tally.ops + 1 /\ tally'.last.kind \in kinds

\* C28: (as stated) when init, add, edit or rm returns an error, also an Io
\* error of the chmod or of the directory fsync after the rename, the vault
\* file holds the bytes it held before the call, and a vault that was not
\* there is not there.
C28_ErrorLeavesVault ==
    [][(CallOf(Writers) /\ ~proc'[1].ret.ok) =>
           /\ dir.vault = 0 => dir'.vault = 0
           /\ VaultData'.bytes = VaultData.bytes
      ]_vars

\* C28 for the errors raised before the rename: these leave the vault file
\* as it was.
C28_SaveAfterRename ==
    [][(CallOf(Writers) /\ ~proc'[1].ret.ok
           /\ proc'[1].ret.detail \notin {"w_chmod2", "w_fsync_dir"}) =>
           /\ dir.vault = 0 => dir'.vault = 0
           /\ VaultData'.bytes = VaultData.bytes
      ]_vars

\* The handlers that take the master password of a vault that is there.
PasswordOps == {"get", "list", "search", "add", "edit", "rm"}

\* C29: (as stated) get, list, search, add, edit and rm, search with an
\* empty or blank query too, do not return Ok when there is no vault file or
\* when the password is not the one of the vault: with no failing system
\* call they return NotInitialized and AuthFailed.
C29_NoSuccessWithoutAuth ==
    [][(CallOf(PasswordOps) /\ (dir.vault = 0 \/ tally'.last.pw # PW)) =>
           /\ ~proc'[1].ret.ok
           /\ tally'.fails = tally.fails =>
                  proc'[1].ret = IF dir.vault = 0 THEN Err("NotInitialized", "") ELSE AuthFailed
      ]_vars

\* C29 without the searches that return before the vault is read.
C29_SaveBlankSearch ==
    [][(/\ CallOf(PasswordOps)
        /\ dir.vault = 0 \/ tally'.last.pw # PW
        /\ ~(tally'.last.kind = "search" /\ trim(tally'.last.query) = <<>>)) =>
           /\ ~proc'[1].ret.ok
           /\ tally'.fails = tally.fails =>
                  proc'[1].ret = IF dir.vault = 0 THEN Err("NotInitialized", "") ELSE AuthFailed
      ]_vars

\* ---- Progress of the concurrent handlers ----

\* The steps at which a handler asks for the lock.
LockPcs == {"r_lock", "m_lock", "w_lock"}

\* p is granted the lock it waits for; p takes a step that waits for nothing.
LockStep(p) == proc[p].pc \in LockPcs /\ Step(p)

RunStep(p) == proc[p].pc \notin LockPcs /\ Step(p)

\* Handlers started in one behaviour of SpecLive.
MaxLiveOps == 3

\* The handlers called: each kind once, on the uuid 1.
LiveOps ==
    {OpInit(PW, Rnd(0, 0, 0, 0)), OpStatus, OpList(PW), OpSearch(PW, <<97>>), OpGet(PW, 1),
     OpEdit(PW, [EditKeep(1) EXCEPT !.name = Some(<<98>>)], 1, Rnd(1, 1, 1, 1)),
     OpRm(PW, 1, Rnd(1, 1, 1, 1))}
    \cup {OpAdd(PW, InBare, id, 0, Rnd(1, 1, 1, 1)) : id \in Uuid_new_v4 \cap {1}}

LiveBegin(p) ==
    /\ proc[p].pc = "idle"
    /\ tally.ops < MaxLiveOps
    /\ \E op \in LiveOps : Becomes(begin(State, p, op))
    /\ tally' = [tally EXCEPT !.ops = @ + 1]

NextLive == \E p \in Procs : LiveBegin(p) \/ RunStep(p) \/ LockStep(p)

\* RunStep(p) is enabled exactly when p is in a handler and not waiting:
\* every such step of Exec is defined whatever the files hold.
RunEnabled(p) == proc[p].pc \notin LockPcs \cup {"idle"}

\* Weak fairness of RunStep(p), WF_vars(RunStep(p)), written by its
\* definition with RunEnabled(p) for ENABLED <<RunStep(p)>>_vars: a process
\* that is in a handler and does not wait takes its step.
RunFair(p) == ([]<>(~RunEnabled(p))) \/ ([]<>(<<RunStep(p)>>_vars))

\* The processes with their scheduling: a process that is in a handler runs
\* on, and a lock that can be granted again and again is granted in the end
\* (flock granted fairly).
SpecLive ==
    /\ Init
    /\ [][NextLive]_vars
    /\ \A p \in Procs : RunFair(p) /\ SF_vars(LockStep(p))

\* No handler asks for the lock while its process holds it.
NoSelfRequest == \A p \in Procs : proc[p].pc \in LockPcs => flock[p] = "none"

\* When a handler is in progress, some handler can take a step.
NoDeadlock == (\E p \in Procs : proc[p].pc # "idle") => \E p \in Procs : CanStep(State, p)

\* C30: with concurrent processes calling init, status, get, list, search,
\* add, edit and rm, no handler asks for the lock while its process holds
\* it, in no state are all the handlers in progress waiting, and with the
\* lock granted fairly every handler that was started returns (or its
\* process is killed).
C30_NoDeadlockAllReturn ==
    /\ [](NoSelfRequest /\ NoDeadlock)
    /\ \A p \in Procs : (proc[p].pc # "idle") ~> (proc[p].pc = "idle")

\* An add waits for the lock that an init, in its write, holds.
C30_Witness ==
    /\ proc[1].pc = "m_lock"
    /\ proc[1].op.kind = "add"
    /\ ~CanStep(State, 1)
    /\ proc[2].op.kind = "init"
    /\ flock[2] = "Exclusive"

====
